---- MODULE Spec2Model ----
(***************************************************************************)
(* Calendar synchronisation and token lifecycle of the CalendPro backend:  *)
(*   app/services/google_calendar.py  (GoogleCalendarService)              *)
(*   app/services/calendar_sync.py    (CalendarSyncService)                *)
(*   app/models/*.py                  (tables and their constraints)       *)
(*   app/db/session.py                (the SQLAlchemy session factory)     *)
(*                                                                         *)
(* One request runs at a time.  A request is a sequence of steps; every    *)
(* step is one statement block of the source between two points where the  *)
(* outside world (the provider, the token endpoint, the clock) is asked.   *)
(* Instants are minutes.                                                   *)
(***************************************************************************)
EXTENDS Integers, Sequences, FiniteSets, TLC

VARIABLES
  now,               \* datetime.now(timezone.utc)
  oauth_accounts,    \* table oauth_accounts, committed: id -> row
  calendar_sources,  \* table calendar_sources, committed: set of rows
  external_events,   \* table external_events, committed: set of rows
  provider,          \* what the calendar provider holds
  session,           \* the request's SQLAlchemy session (unit of work)
  req                \* the running request: operation, position, locals

vars == <<now, oauth_accounts, calendar_sources, external_events, provider, session, req>>

\* an absent string (a missing key, NULL) and an absent number
None == "None"
Nil == -1

----------------------------------------------------------------------------
(* Bounds of the model *)

MaxTime == 13

(* Program constants *)

\* timedelta(minutes=5)
Skew == 5
\* tokens.get("expires_in", 3600): 3600 seconds, in minutes
DefaultExpiresIn == 60
\* max_results: int = 250, the page size of events().list; scaled to the
\* lists of the model, which hold up to max_results + 1 events
max_results == 2
\* minutes of a day: the instant of midnight UTC of day d is d * DayMinutes
DayMinutes == 1440

----------------------------------------------------------------------------
(* Sequences *)

RECURSIVE SeqSum(_)
SeqSum(s) == IF s = <<>> THEN 0 ELSE Head(s) + SeqSum(Tail(s))

Prefix(s, n) == IF Len(s) <= n THEN s ELSE SubSeq(s, 1, n)

\* the duplicate-free sequences over S of length at most n
RECURSIVE Perms(_, _)
Perms(S, n) ==
  IF n = 0 \/ S = {} THEN {<<>>}
  ELSE {<<>>} \cup UNION {{<<x>> \o p : p \in Perms(S \ {x}, n - 1)} : x \in S}

----------------------------------------------------------------------------
(* The provider's data: Google Calendar API objects.  A key that the       *)
(* response does not carry is None (Nil for a number); "primary", which    *)
(* is read with get("primary", False), is FALSE when it is missing.        *)

GCal(id, summary, primary, tz) ==
  [id |-> id, summary |-> summary, primary |-> primary, timeZone |-> tz]

\* start / end of an event: {"date": d} or {"dateTime": t} or {}
OnDate(d) == [date |-> d, dateTime |-> Nil]
AtTime(t) == [date |-> Nil, dateTime |-> t]
NoTime == [date |-> Nil, dateTime |-> Nil]

GEvent(id, start, end, summary, description, location, status) ==
  [id |-> id, start |-> start, end |-> end, summary |-> summary,
   description |-> description, location |-> location, status |-> status]

----------------------------------------------------------------------------
(* Table rows *)

OAuthAccount(id, user, access, refresh, expires) ==
  [id |-> id, user_id |-> user, provider |-> "google", access_token |-> access,
   refresh_token |-> refresh, token_expires_at |-> expires]

\* the smallest row id no row of S carries (stands for uuid.uuid4)
FreshId(S) ==
  LET used == {r.id : r \in S}
  IN CHOOSE n \in 1..(Cardinality(used) + 1) : n \notin used /\ \A m \in 1..(n - 1) : m \in used

\* dict.get(key, default)
Get(v, default) == IF v = None THEN default ELSE v
GetInt(v, default) == IF v = Nil THEN default ELSE v

----------------------------------------------------------------------------
(* The session: SessionLocal = sessionmaker(autocommit=False,              *)
(* autoflush=False).  calendar_sources and external_events are the rows    *)
(* the session's transaction sees (committed rows, flushed inserts and the *)
(* attribute changes made to loaded objects); new holds the objects given  *)
(* to db.add() and not flushed yet: with autoflush=False no SELECT sees    *)
(* them.  After a failed flush the transaction is rolled back and the      *)
(* session stays inactive (every later statement raises                   *)
(* PendingRollbackError) until rollback() is called.                      *)

NewSession ==
  [active |-> TRUE, calendar_sources |-> calendar_sources,
   external_events |-> external_events, new |-> {}]

\* the table without its constraint
ck_absent(r) == TRUE

\* CheckConstraint("(all_day OR end_at > start_at)")
ck_external_event_end_after_start(r) == r.all_day \/ r.end_at > r.start_at

\* the INSERTs and UPDATEs of a flush all pass the table's constraints
FlushOK(sess) ==
  \A r \in sess.external_events \cup sess.new : ck_external_event_end_after_start(r)

Flushed(sess) ==
  [sess EXCEPT !.external_events = @ \cup sess.new, !.new = {}]

\* the session after a flush raised: pending objects expunged, loaded ones expired
FlushFailed ==
  [active |-> FALSE, calendar_sources |-> calendar_sources,
   external_events |-> external_events, new |-> {}]

----------------------------------------------------------------------------
(* CalendarSyncService._sync_event *)

\* all_day = "date" in start_data
all_day(ge) == ge.start.date # Nil

\* start_data["date"] / end_data["date"] raise KeyError on a missing key,
\* datetime.fromisoformat(x.get("dateTime", "")) raises ValueError on ""
ParseRaises(ge) ==
  IF all_day(ge) THEN ge.end.date = Nil
  ELSE ge.start.dateTime = Nil \/ ge.end.dateTime = Nil

MidnightShifted(d) == d * DayMinutes + 60

\* datetime.fromisoformat(d).replace(tzinfo=timezone.utc): midnight UTC of the day
Midnight(d) == d * DayMinutes

start_at(ge) == IF all_day(ge) THEN Midnight(ge.start.date) ELSE ge.start.dateTime
end_at(ge) == IF all_day(ge) THEN Midnight(ge.end.date) ELSE ge.end.dateTime

\* the fields _sync_event writes, on update and on insert alike
Canonical(ge) ==
  [title |-> Get(ge.summary, "Untitled Event"),
   description |-> ge.description,
   location |-> ge.location,
   start_at |-> start_at(ge),
   end_at |-> end_at(ge),
   all_day |-> all_day(ge),
   status |-> Get(ge.status, "confirmed")]

ExternalEvent(id, cs, ext, f, source) ==
  [id |-> id, calendar_source_id |-> cs, external_event_id |-> ext,
   title |-> f.title, description |-> f.description, location |-> f.location,
   start_at |-> f.start_at, end_at |-> f.end_at, all_day |-> f.all_day,
   source |-> source, status |-> f.status]

\* select(ExternalEvent).where(calendar_source_id == .., external_event_id == ..)
Matching(rows, cs, ext) ==
  {r \in rows : r.calendar_source_id = cs /\ r.external_event_id = ext}

\* the matched row overwritten and tagged as imported
UpdatedRetagging(r, f) ==
  [r EXCEPT !.title = f.title, !.description = f.description, !.location = f.location,
            !.start_at = f.start_at, !.end_at = f.end_at, !.all_day = f.all_day,
            !.status = f.status, !.source = "imported"]

\* the matched row overwritten: source (the origin tag) is not assigned
Updated(r, f) ==
  [r EXCEPT !.title = f.title, !.description = f.description, !.location = f.location,
            !.start_at = f.start_at, !.end_at = f.end_at, !.all_day = f.all_day,
            !.status = f.status]

\* [raised, session]: the exception _sync_event raises (None: it returns)
\* and the session it leaves
SyncEvent(sess, cs, ge) ==
  IF ParseRaises(ge) THEN [raised |-> "ValueError", session |-> sess]
  ELSE IF ~sess.active THEN [raised |-> "PendingRollbackError", session |-> sess]
  ELSE
    LET m == Matching(sess.external_events, cs, ge.id)
    IN IF Cardinality(m) > 1
         THEN [raised |-> "MultipleResultsFound", session |-> sess]
       ELSE IF m = {}
         THEN [raised |-> None,
               session |-> [sess EXCEPT !.new = @ \cup
                  {ExternalEvent(FreshId(sess.external_events \cup sess.new), cs, ge.id,
                                 Canonical(ge), "imported")}]]
       ELSE
         LET r == CHOOSE x \in m : TRUE
         IN [raised |-> None,
             session |-> [sess EXCEPT !.external_events =
                            (@ \ {r}) \cup {Updated(r, Canonical(ge))}]]

\* the rows of the calendar are deleted, then the events are inserted
RECURSIVE SyncEventsReplacing(_, _, _)
SyncEventsReplacing(sess, cs, items) ==
  IF items = <<>>
    THEN [session |-> [sess EXCEPT !.external_events =
                         {r \in @ : r.calendar_source_id # cs}],
          events_synced |-> 0]
  ELSE
    LET rest == SyncEventsReplacing(sess, cs, SubSeq(items, 1, Len(items) - 1))
        one == SyncEvent(rest.session, cs, items[Len(items)])
    IN [session |-> one.session,
        events_synced |-> rest.events_synced + (IF one.raised = None THEN 1 ELSE 0)]

\* the loop of _sync_calendar_events over google_events: [session, events_synced]
RECURSIVE SyncEvents(_, _, _)
SyncEvents(sess, cs, items) ==
  IF items = <<>> THEN [session |-> sess, events_synced |-> 0]
  ELSE
    LET one == SyncEvent(sess, cs, Head(items))
        rest == SyncEvents(one.session, cs, Tail(items))
    IN [session |-> rest.session,
        events_synced |-> rest.events_synced + (IF one.raised = None THEN 1 ELSE 0)]

----------------------------------------------------------------------------
(* The running request.                                                    *)
(*   op      idle | sync_user | sync_calendar | create_event |             *)
(*           update_event | delete_event | google_callback |               *)
(*           google_disconnect                                             *)
(*   pc      refresh: about to run _refresh_token_if_needed for `call`     *)
(*           call: about to send `call` to the provider                    *)
(*           calendar_source: about to run _sync_calendar_source           *)
(*           commit: about to run db.commit() of the unit of work          *)
(*           done: returned or raised, see result                          *)
(* The other fields are the locals of the source, plus what the request    *)
(* did so far (posts, api_calls, reauths, cal_log, acct_log).              *)

NoResult == [status |-> None, error |-> None, calendars |-> 0, events |-> 0]

\* a token answer with no key
NoTokens == [access_token |-> None, refresh_token |-> None, expires_in |-> Nil]

\* the arguments of a write: a key not given is absent; all_day is "True",
\* "False" or absent
NoArgs ==
  [title |-> None, start_at |-> Nil, end_at |-> Nil,
   description |-> None, location |-> None, all_day |-> None]

\* the user, the Google user and the token answer of an OAuth callback
NoCallback == [user |-> None, google_user_id |-> None, tokens |-> NoTokens]

IdleReq ==
  [op |-> "idle", pc |-> "done", call |-> None,
   target |-> Nil, args |-> NoArgs, callback |-> NoCallback,
   accts |-> <<>>, acct |-> None, service |-> None,
   google_calendars |-> <<>>, cals |-> <<>>, calendar_source |-> Nil,
   calendars_synced |-> 0, total_events |-> 0,
   total_calendars |-> 0, user_events |-> 0,
   posts |-> 0, api_calls |-> 0, api_token |-> None, reauths |-> 0,
   cal_log |-> <<>>, acct_log |-> <<>>,
   result |-> NoResult]

Returned(r, calendars, events) ==
  [r EXCEPT !.pc = "done",
            !.result = [status |-> "ok", error |-> None,
                        calendars |-> calendars, events |-> events]]

Failed(r, err) ==
  [r EXCEPT !.pc = "done",
            !.result = [status |-> "error", error |-> err, calendars |-> 0, events |-> 0]]

\* _sync_account_calendars(oauth_account) entered: GoogleCalendarService(oauth_account, db)
\* with _service = None, then list_calendars()
BeginAccount(r) ==
  [r EXCEPT !.acct = Head(r.accts), !.service = None,
            !.call = "list_calendars", !.pc = "refresh",
            !.google_calendars = <<>>, !.cals = <<>>, !.calendar_source = Nil,
            !.calendars_synced = 0, !.total_events = 0, !.cal_log = <<>>]

\* the loop of sync_user_calendars goes to its next account, or returns the totals
NextAccount(r) ==
  LET r2 == [r EXCEPT !.accts = Tail(r.accts)]
  IN IF r2.accts = <<>> THEN Returned(r2, r2.total_calendars, r2.user_events)
     ELSE BeginAccount(r2)

\* _sync_account_calendars returned (calendars_synced, total_events)
AccountReturned(r) ==
  NextAccount([r EXCEPT !.total_calendars = @ + r.calendars_synced,
                        !.user_events = @ + r.total_events,
                        !.acct_log = Append(@, [acct |-> r.acct, outcome |-> "ok",
                                                calendars |-> r.calendars_synced,
                                                events |-> r.total_events])])

\* _sync_account_calendars raised: the except of sync_user_calendars logs
\* f"... {oauth_account.id}: {e}" and continues.  Reading oauth_account.id loads
\* the expired object, which raises out of the handler in an inactive session.
AccountRaised(r, err, sess) ==
  IF ~sess.active THEN Failed(r, "PendingRollbackError")
  ELSE NextAccount([r EXCEPT !.acct_log = Append(@, [acct |-> r.acct, outcome |-> err,
                                                    calendars |-> 0, events |-> 0])])

\* the loop over google_calendars goes to its next calendar, or to db.commit()
NextCalendar(r) ==
  LET r2 == [r EXCEPT !.cals = Tail(r.cals)]
  IN [r2 EXCEPT !.pc = IF r2.cals = <<>> THEN "commit" ELSE "calendar_source"]

CalendarRaisedBreaks(r, err) ==
  [r EXCEPT !.cal_log = Append(@, [id |-> Head(r.cals).id, outcome |-> err,
                                   counted |-> r.pc # "calendar_source",
                                   events |-> 0]),
            !.cals = <<>>, !.pc = "commit"]

\* the body of the loop over google_calendars raised: logged, continue
CalendarRaised(r, err) ==
  NextCalendar([r EXCEPT !.cal_log = Append(@, [id |-> Head(r.cals).id, outcome |-> err,
                                                counted |-> r.pc # "calendar_source",
                                                events |-> 0])])

\* an exception raised where the request stands
Raised(r, err, sess) ==
  IF r.op = "sync_user"
    THEN IF r.pc = "calendar_source" \/ (r.call = "get_events" /\ r.pc \in {"refresh", "call"})
           THEN CalendarRaised(r, err)
           ELSE AccountRaised(r, err, sess)
    ELSE Failed(r, err)

----------------------------------------------------------------------------
(* GoogleCalendarService._refresh_token_if_needed, the first statement of  *)
(* list_calendars, get_events, create_event, update_event, delete_event    *)

\* an absent expiry is taken for one that has passed
RefreshNeededWhenAbsent(expires_at, t) == t >= expires_at - Skew

RefreshNeededAtExpiry(expires_at, t) == expires_at # Nil /\ t >= expires_at

RefreshNeededLate(expires_at, t) == expires_at # Nil /\ t > expires_at - Skew

\* if self.oauth_account.token_expires_at: ... if now >= token_expires_at - timedelta(minutes=5)
RefreshNeeded(expires_at, t) == expires_at # Nil /\ t >= expires_at - Skew

EmptyRefreshToken(a) == a.refresh_token = ""

\* if not self.oauth_account.refresh_token
NoRefreshToken(a) == a.refresh_token = None \/ a.refresh_token = ""

RefreshedOverwriting(a, tokens, t) ==
  [a EXCEPT !.access_token = tokens.access_token,
            !.token_expires_at = t + GetInt(tokens.expires_in, DefaultExpiresIn),
            !.refresh_token = tokens.refresh_token]

\* the account row after a 200 answer {access_token, expires_in?, refresh_token?}
Refreshed(a, tokens, t) ==
  [a EXCEPT !.access_token = tokens.access_token,
            !.token_expires_at = t + GetInt(tokens.expires_in, DefaultExpiresIn),
            !.refresh_token = IF tokens.refresh_token # None THEN tokens.refresh_token ELSE @]

Acct == oauth_accounts[req.acct]

\* the 200 answers of the token endpoint: a new access token, with the
\* refresh_token and expires_in keys the provider chooses to send
TokenAnswers(a) ==
  {[access_token |-> CHOOSE t \in {"at0", "at1"} : t # a.access_token,
    refresh_token |-> k.refresh_token,
    expires_in |-> k.expires_in] : k \in provider.token_keys}

RefreshNotNeeded ==
  /\ req.pc = "refresh"
  /\ ~RefreshNeeded(Acct.token_expires_at, now)
  /\ req' = [req EXCEPT !.pc = "call"]
  /\ UNCHANGED <<now, oauth_accounts, calendar_sources, external_events, provider, session>>

\* raise ValueError("No refresh token available. User must re-authenticate.")
RefreshReauthRequired ==
  /\ req.pc = "refresh"
  /\ RefreshNeeded(Acct.token_expires_at, now)
  /\ NoRefreshToken(Acct)
  /\ req' = Raised([req EXCEPT !.reauths = @ + 1], "ReauthRequired", session)
  /\ UNCHANGED <<now, oauth_accounts, calendar_sources, external_events, provider, session>>

\* the answer that is not a 200 is ignored and the call goes on
RefreshRejectedIgnored ==
  /\ req.pc = "refresh"
  /\ RefreshNeeded(Acct.token_expires_at, now)
  /\ ~NoRefreshToken(Acct)
  /\ req' = [req EXCEPT !.posts = @ + 1, !.pc = "call"]
  /\ UNCHANGED <<now, oauth_accounts, calendar_sources, external_events, provider, session>>

\* response.status_code != 200: raise ValueError(f"Failed to refresh token: {response.text}")
RefreshRejected ==
  /\ req.pc = "refresh"
  /\ RefreshNeeded(Acct.token_expires_at, now)
  /\ ~NoRefreshToken(Acct)
  /\ req' = Raised([req EXCEPT !.posts = @ + 1], "TokenRefreshFailed", session)
  /\ UNCHANGED <<now, oauth_accounts, calendar_sources, external_events, provider, session>>

AfterRefreshKeepingClient(r) == [r EXCEPT !.posts = @ + 1, !.pc = "call"]

\* the refresh went through: self._service = None forces the client to be
\* built again with the new token
AfterRefresh(r) == [r EXCEPT !.posts = @ + 1, !.service = None, !.pc = "call"]

\* a 200 answer: the row is assigned, db.commit() flushes and commits everything
\* the session holds, self._service = None
RefreshAccepted ==
  /\ req.pc = "refresh"
  /\ RefreshNeeded(Acct.token_expires_at, now)
  /\ ~NoRefreshToken(Acct)
  /\ \E tokens \in TokenAnswers(Acct) :
       IF FlushOK(session)
         THEN /\ oauth_accounts' = [oauth_accounts EXCEPT ![req.acct] = Refreshed(@, tokens, now)]
              /\ calendar_sources' = session.calendar_sources
              /\ external_events' = session.external_events \cup session.new
              /\ session' = Flushed(session)
              /\ req' = AfterRefresh(req)
              /\ provider' = [provider EXCEPT
                                !.answered[req.acct] = tokens,
                                !.returned[req.acct] =
                                  IF tokens.refresh_token # None THEN tokens.refresh_token ELSE @]
         ELSE /\ session' = FlushFailed
              /\ req' = Raised([req EXCEPT !.posts = @ + 1], "IntegrityError", FlushFailed)
              /\ UNCHANGED <<oauth_accounts, calendar_sources, external_events, provider>>
  /\ UNCHANGED now

----------------------------------------------------------------------------
(* The provider calls of a sync *)

\* _get_service: the client is built with the access token stored when it is built
ServiceToken == IF req.service = None THEN Acct.access_token ELSE req.service

Called(r) ==
  [r EXCEPT !.service = ServiceToken, !.api_token = ServiceToken, !.api_calls = @ + 1]

\* service.calendarList().list().execute() answers
ListCalendarsOK ==
  /\ req.pc = "call"
  /\ req.call = "list_calendars"
  /\ LET items == provider.calendars[req.acct]
         r == [Called(req) EXCEPT !.google_calendars = items, !.cals = items]
     IN req' = [r EXCEPT !.pc = IF items = <<>> THEN "commit" ELSE "calendar_source"]
  /\ UNCHANGED <<now, oauth_accounts, calendar_sources, external_events, provider, session>>

\* the provider call raises (HttpError is logged and raised again)
ProviderCallFails ==
  /\ req.pc = "call"
  /\ req' = Raised(Called(req), "HttpError", session)
  /\ UNCHANGED <<now, oauth_accounts, calendar_sources, external_events, provider, session>>

\* select(CalendarSource).where(oauth_account_id == .., external_calendar_id == ..)
MatchingSource(rows, acct, ext) ==
  {c \in rows : c.oauth_account_id = acct /\ c.external_calendar_id = ext}

CalendarSourceNoDefault(id, acct, gcal) ==
  [id |-> id, oauth_account_id |-> acct, external_calendar_id |-> gcal.id,
   name |-> gcal.summary,
   is_primary |-> gcal.primary,
   timezone |-> gcal.timeZone]

\* the fields _sync_calendar_source gives a calendar source, on update and on
\* insert alike
CalendarSource(id, acct, gcal) ==
  [id |-> id, oauth_account_id |-> acct, external_calendar_id |-> gcal.id,
   name |-> Get(gcal.summary, "Unnamed Calendar"),
   is_primary |-> gcal.primary,
   timezone |-> Get(gcal.timeZone, "UTC")]

\* _sync_calendar_source: [raised, session, id]
SyncSource(sess, acct, gcal) ==
  IF ~sess.active THEN [raised |-> "PendingRollbackError", session |-> sess, id |-> Nil]
  ELSE
    LET m == MatchingSource(sess.calendar_sources, acct, gcal.id)
    IN IF m # {}
         THEN LET c == CHOOSE x \in m : TRUE
              IN [raised |-> None, id |-> c.id,
                  session |-> [sess EXCEPT !.calendar_sources =
                                 (@ \ {c}) \cup {CalendarSource(c.id, acct, gcal)}]]
       ELSE IF FlushOK(sess)
         THEN LET id == FreshId(sess.calendar_sources)
              IN [raised |-> None, id |-> id,
                  session |-> [Flushed(sess) EXCEPT !.calendar_sources =
                                 @ \cup {CalendarSource(id, acct, gcal)}]]
       ELSE [raised |-> "IntegrityError", session |-> FlushFailed, id |-> Nil]

\* the first half of the loop body: _sync_calendar_source, calendars_synced += 1
SyncCalendarSource ==
  /\ req.pc = "calendar_source"
  /\ LET res == SyncSource(session, req.acct, Head(req.cals))
     IN /\ session' = res.session
        /\ req' = IF res.raised # None THEN Raised(req, res.raised, res.session)
                  ELSE [req EXCEPT !.calendar_source = res.id,
                                   !.calendars_synced = @ + 1,
                                   !.call = "get_events", !.pc = "refresh"]
  /\ UNCHANGED <<now, oauth_accounts, calendar_sources, external_events, provider>>

\* calendar_source.external_calendar_id
ExternalCalendarId(sess, id) ==
  (CHOOSE c \in sess.calendar_sources : c.id = id).external_calendar_id

\* events().list(calendarId, maxResults, singleEvents, orderBy, timeMin, timeMax):
\* the first page of the events the provider holds in the window
EventsPage(ext) == Prefix(provider.events[ext], max_results)

\* service.events().list(**params).execute() answers; the loop over its items
GetEventsOK ==
  /\ req.pc = "call"
  /\ req.call = "get_events"
  /\ LET ext == ExternalCalendarId(session, req.calendar_source)
         res == SyncEvents(session, req.calendar_source, EventsPage(ext))
         r == Called(req)
     IN /\ session' = res.session
        /\ req' = IF req.op = "sync_user"
                    THEN NextCalendar(
                           [r EXCEPT !.total_events = @ + res.events_synced,
                                     !.cal_log = Append(@, [id |-> ext, outcome |-> "ok",
                                                            counted |-> TRUE,
                                                            events |-> res.events_synced])])
                    ELSE [r EXCEPT !.total_events = res.events_synced, !.pc = "commit"]
  /\ UNCHANGED <<now, oauth_accounts, calendar_sources, external_events, provider>>

\* self.db.commit() of _sync_account_calendars and of sync_calendar_source
Commit ==
  /\ req.pc = "commit"
  /\ IF session.active /\ FlushOK(session)
       THEN /\ calendar_sources' = session.calendar_sources
            /\ external_events' = session.external_events \cup session.new
            /\ session' = Flushed(session)
            /\ req' = IF req.op = "sync_user" THEN AccountReturned(req)
                      ELSE Returned(req, 1, req.total_events)
       ELSE /\ session' = IF session.active THEN FlushFailed ELSE session
            /\ req' = Raised(req, IF session.active THEN "IntegrityError"
                                  ELSE "PendingRollbackError", session')
            /\ UNCHANGED <<calendar_sources, external_events>>
  /\ UNCHANGED <<now, oauth_accounts, provider>>

----------------------------------------------------------------------------
(* Requests *)

\* select(OAuthAccount).where(user_id == user_id, provider == "google")
GoogleAccounts(u) ==
  {a \in DOMAIN oauth_accounts :
     oauth_accounts[a].user_id = u /\ oauth_accounts[a].provider = "google"}

\* CalendarSyncService(db).sync_user_calendars(user_id); the SELECT has no
\* ORDER BY: the accounts come in any order
StartSyncUser(u) ==
  /\ req.pc = "done"
  /\ \E order \in Perms(GoogleAccounts(u), Cardinality(GoogleAccounts(u))) :
       /\ Len(order) = Cardinality(GoogleAccounts(u))
       /\ LET r == [IdleReq EXCEPT !.op = "sync_user", !.accts = order]
          IN req' = IF order = <<>> THEN Returned(r, 0, 0) ELSE BeginAccount(r)
  /\ session' = NewSession
  /\ UNCHANGED <<now, oauth_accounts, calendar_sources, external_events, provider>>

\* CalendarSyncService(db).sync_calendar_source(calendar_source_id)
StartSyncCalendar(id) ==
  /\ req.pc = "done"
  /\ LET r == [IdleReq EXCEPT !.op = "sync_calendar"]
         m == {c \in calendar_sources : c.id = id}
     IN req' = IF m = {} THEN Failed(r, "NotFound")
               ELSE [r EXCEPT !.acct = (CHOOSE c \in m : TRUE).oauth_account_id,
                              !.calendar_source = id,
                              !.call = "get_events", !.pc = "refresh"]
  /\ session' = NewSession
  /\ UNCHANGED <<now, oauth_accounts, calendar_sources, external_events, provider>>

\* the clock
Tick ==
  /\ now < MaxTime
  /\ now' = now + 1
  /\ UNCHANGED <<oauth_accounts, calendar_sources, external_events, provider, session, req>>

----------------------------------------------------------------------------
(* EventManagerService: create_event, update_event, delete_event, and the  *)
(* GoogleCalendarService calls they make                                   *)

\* the ids the provider gives to the events it creates
ProviderIds == {"g1"}

\* if end_at <= start_at: raise ValueError("Event end time must be after start time")
CreateRejected(a) == a.end_at <= a.start_at

\* if start_at and end_at and end_at <= start_at: raise ValueError(...)
UpdateRejected(p) == p.start_at # Nil /\ p.end_at # Nil /\ p.end_at <= p.start_at

\* start.date(): the day of an instant
DateOf(t) == t \div DayMinutes

\* event_body of GoogleCalendarService.create_event, as the provider stores
\* it under the id it gives (status "confirmed")
InsertBody(id, a) ==
  GEvent(id,
         IF a.all_day = "True" THEN OnDate(DateOf(a.start_at)) ELSE AtTime(a.start_at),
         IF a.all_day = "True" THEN OnDate(DateOf(a.end_at)) ELSE AtTime(a.end_at),
         a.title, a.description, a.location, "confirmed")

\* GoogleCalendarService.update_event: the event read from the provider with
\* the given fields replaced; start and end only when both are given
Patched(e, p) ==
  LET both == p.start_at # Nil /\ p.end_at # Nil
  IN [e EXCEPT
        !.summary = IF p.title # None THEN p.title ELSE @,
        !.description = IF p.description # None THEN p.description ELSE @,
        !.location = IF p.location # None THEN p.location ELSE @,
        !.start = IF ~both THEN @
                  ELSE IF p.all_day = "True" THEN OnDate(DateOf(p.start_at))
                  ELSE AtTime(p.start_at),
        !.end = IF ~both THEN @
                ELSE IF p.all_day = "True" THEN OnDate(DateOf(p.end_at))
                ELSE AtTime(p.end_at)]

\* EventManagerService.update_event: the row with every given field assigned
UpdatedLocally(r, p) ==
  [r EXCEPT
     !.title = IF p.title # None THEN p.title ELSE @,
     !.description = IF p.description # None THEN p.description ELSE @,
     !.location = IF p.location # None THEN p.location ELSE @,
     !.start_at = IF p.start_at # Nil THEN p.start_at ELSE @,
     !.end_at = IF p.end_at # Nil THEN p.end_at ELSE @,
     !.all_day = IF p.all_day # None THEN p.all_day = "True" ELSE @]

\* the positions of the provider's events of calendar ext with the id
Held(ext, id) == {i \in 1..Len(provider.events[ext]) : provider.events[ext][i].id = id}

\* the list without its entries at the positions of P
RECURSIVE Without(_, _)
Without(list, P) ==
  IF list = <<>> THEN <<>>
  ELSE LET front == Without(SubSeq(list, 1, Len(list) - 1), P)
       IN IF Len(list) \in P THEN front ELSE Append(front, list[Len(list)])

\* the write starts: the rows are selected, the service is made, the
\* provider call comes next
Write(op, row, cs, a) ==
  [IdleReq EXCEPT !.op = op, !.call = op, !.pc = "refresh",
                  !.target = row, !.calendar_source = cs.id,
                  !.acct = cs.oauth_account_id, !.args = a]

\* EventManagerService(db).create_event(calendar_source_id, ...)
StartCreateEvent(id, a) ==
  /\ req.pc = "done"
  /\ LET r == [IdleReq EXCEPT !.op = "create_event", !.args = a]
         m == {c \in calendar_sources : c.id = id}
     IN req' = IF CreateRejected(a) THEN Failed(r, "ValidationError")
               ELSE IF m = {} THEN Failed(r, "NotFound")
               ELSE Write("create_event", Nil, CHOOSE c \in m : TRUE, a)
  /\ session' = NewSession
  /\ UNCHANGED <<now, oauth_accounts, calendar_sources, external_events, provider>>

\* events().insert() answers: the row is added and committed; the except
\* rolls back and raises again
CreateEventOK ==
  /\ req.pc = "call"
  /\ req.call = "create_event"
  /\ LET ext == ExternalCalendarId(session, req.calendar_source)
         free == ProviderIds \ {provider.events[ext][i].id : i \in 1..Len(provider.events[ext])}
     IN /\ free # {}
        /\ Len(provider.events[ext]) <= max_results
        /\ LET gid == CHOOSE g \in free : \A h \in free : g = h \/ g # "g2"
               row == ExternalEvent(FreshId(session.external_events), req.calendar_source, gid,
                                    [title |-> req.args.title,
                                     description |-> req.args.description,
                                     location |-> req.args.location,
                                     start_at |-> req.args.start_at,
                                     end_at |-> req.args.end_at,
                                     all_day |-> req.args.all_day = "True",
                                     status |-> "confirmed"], "generated")
               sess == [session EXCEPT !.new = @ \cup {row}]
           IN /\ provider' = [provider EXCEPT !.events[ext] = Append(@, InsertBody(gid, req.args))]
              /\ IF FlushOK(sess)
                   THEN /\ external_events' = sess.external_events \cup sess.new
                        /\ session' = Flushed(sess)
                        /\ req' = Returned(Called(req), 0, 1)
                   ELSE /\ external_events' = external_events
                        /\ session' = NewSession
                        /\ req' = Failed(Called(req), "IntegrityError")
  /\ UNCHANGED <<now, oauth_accounts, calendar_sources>>

\* EventManagerService(db).update_event(event_id, ...)
StartUpdateEvent(id, p) ==
  /\ req.pc = "done"
  /\ LET r == [IdleReq EXCEPT !.op = "update_event", !.target = id, !.args = p]
         m == {e \in external_events : e.id = id}
     IN req' = IF m = {} THEN Failed(r, "NotFound")
               ELSE IF (CHOOSE e \in m : TRUE).external_event_id \in {None, ""}
                 THEN Failed(r, "NoRemoteId")
               ELSE IF UpdateRejected(p) THEN Failed(r, "ValidationError")
               ELSE Write("update_event", id,
                          CHOOSE c \in calendar_sources :
                            c.id = (CHOOSE e \in m : TRUE).calendar_source_id, p)
  /\ session' = NewSession
  /\ UNCHANGED <<now, oauth_accounts, calendar_sources, external_events, provider>>

\* events().get() and events().update() answer: the given fields are
\* assigned to the row and committed; the except rolls back and raises again
UpdateEventOK ==
  /\ req.pc = "call"
  /\ req.call = "update_event"
  /\ LET ext == ExternalCalendarId(session, req.calendar_source)
         row == CHOOSE e \in session.external_events : e.id = req.target
         at == Held(ext, row.external_event_id)
         sess == [session EXCEPT !.external_events =
                    (@ \ {row}) \cup {UpdatedLocally(row, req.args)}]
     IN /\ at # {}
        /\ provider' = [provider EXCEPT !.events[ext] =
                          [i \in 1..Len(@) |-> IF i \in at THEN Patched(@[i], req.args)
                                                ELSE @[i]]]
        /\ IF FlushOK(sess)
             THEN /\ external_events' = sess.external_events
                  /\ session' = sess
                  /\ req' = Returned(Called(req), 0, 1)
             ELSE /\ external_events' = external_events
                  /\ session' = NewSession
                  /\ req' = Failed(Called(req), "IntegrityError")
  /\ UNCHANGED <<now, oauth_accounts, calendar_sources>>

\* every row is taken for one that only exists locally
LocalOnlyAlways(r) == TRUE

\* if not external_event.external_event_id: the event only exists locally
LocalOnly(r) == r.external_event_id \in {None, ""}

\* EventManagerService(db).delete_event(event_id)
StartDeleteEvent(id) ==
  /\ req.pc = "done"
  /\ LET r == [IdleReq EXCEPT !.op = "delete_event", !.target = id]
         m == {e \in external_events : e.id = id}
     IN IF m = {}
          THEN /\ req' = Failed(r, "NotFound")
               /\ UNCHANGED external_events
        ELSE IF LocalOnly(CHOOSE e \in m : TRUE)
          THEN /\ req' = Returned(r, 0, 1)
               /\ external_events' = external_events \ m
        ELSE /\ req' = Write("delete_event", id,
                              CHOOSE c \in calendar_sources :
                                c.id = (CHOOSE e \in m : TRUE).calendar_source_id, NoArgs)
             /\ UNCHANGED external_events
  /\ session' = [NewSession EXCEPT !.external_events = external_events']
  /\ UNCHANGED <<now, oauth_accounts, calendar_sources, provider>>

\* events().delete() answers: the row is deleted and the delete committed
DeleteEventOK ==
  /\ req.pc = "call"
  /\ req.call = "delete_event"
  /\ LET ext == ExternalCalendarId(session, req.calendar_source)
         row == CHOOSE e \in session.external_events : e.id = req.target
         at == Held(ext, row.external_event_id)
     IN /\ at # {}
        /\ provider' = [provider EXCEPT !.events[ext] = Without(@, at)]
        /\ external_events' = session.external_events \ {row}
        /\ session' = [session EXCEPT !.external_events = @ \ {row}]
        /\ req' = Returned(Called(req), 0, 1)
  /\ UNCHANGED <<now, oauth_accounts, calendar_sources>>

----------------------------------------------------------------------------
(* The environment: what the provider holds changes between requests; the *)
(* record of the request that ended is dropped                             *)

\* the provider gains an event in the queried window of calendar c: a calendar
\* holds up to a page of events, or a full page and one event more
ProviderAddsEvent(c, e) ==
  /\ req.pc = "done"
  /\ Len(provider.events[c]) <= max_results
  /\ provider' = [provider EXCEPT !.events[c] = Append(@, e)]
  /\ req' = IdleReq
  /\ UNCHANGED <<now, oauth_accounts, calendar_sources, external_events, session>>

\* the provider loses the last event of calendar c
ProviderDropsEvent(c) ==
  /\ req.pc = "done"
  /\ provider.events[c] # <<>>
  /\ provider' = [provider EXCEPT !.events[c] = SubSeq(@, 1, Len(@) - 1)]
  /\ req' = IdleReq
  /\ UNCHANGED <<now, oauth_accounts, calendar_sources, external_events, session>>

ProviderSetsCalendars(a, cals) ==
  /\ req.pc = "done"
  /\ provider.calendars[a] # cals
  /\ provider' = [provider EXCEPT !.calendars[a] = cals]
  /\ req' = IdleReq
  /\ UNCHANGED <<now, oauth_accounts, calendar_sources, external_events, session>>

----------------------------------------------------------------------------
(* The values of the model *)

Users == {"u1", "u2"}
AccountIds == {"a1", "a2"}
CalIds == {"c1", "c2"}

\* a timed event with every optional key
EvA(id) == GEvent(id, AtTime(600), AtTime(660), "A", "about A", "room", "tentative")
\* an all-day event with no optional key
EvB(id) == GEvent(id, OnDate(1), OnDate(2), None, None, None, None)
\* a timed event of zero duration
EvZ(id) == GEvent(id, AtTime(600), AtTime(600), "Z", None, None, "confirmed")
\* an event without start and end (a cancelled instance)
EvM(id) == GEvent(id, NoTime, NoTime, "M", None, None, "cancelled")

RichEvents == {EvA("e1"), EvB("e1"), EvZ("e1"), EvM("e1"), EvB("e2")}
\* the events a calendar gains: any of E while its page is not full, then Beyond
Gains(c, E, Beyond) == IF Len(provider.events[c]) < max_results THEN E ELSE Beyond

Cal(id) == GCal(id, id, id = "c1", "Europe/Paris")
BareCal(id) == GCal(id, None, FALSE, None)
\* the calendar lists of an account that has the calendar c1 or none
CalLists == {<<>>, <<Cal("c1")>>, <<BareCal("c1")>>}

\* the keys of a token answer: refresh_token absent or present, expires_in
\* absent or present
TokenKeys == [refresh_token : {None, "rt1", "rt2"}, expires_in : {Nil, 3}]

NoAnswer == [access_token |-> None, refresh_token |-> None, expires_in |-> Nil]

\* the provider of the accounts: the calendars each account lists, the events
\* each calendar holds, the keys of its token answers; and, of each account,
\* the refresh token granted at authorization, the answer of its last
\* successful refresh and the last refresh token such an answer carried
Provider(accounts, calendars, events, token_keys) ==
  [calendars |-> calendars, events |-> events, token_keys |-> token_keys,
   granted |-> [a \in DOMAIN accounts |-> accounts[a].refresh_token],
   answered |-> [a \in DOMAIN accounts |-> NoAnswer],
   returned |-> [a \in DOMAIN accounts |-> None]]

NoCalendars == [a \in AccountIds |-> <<>>]
NoEvents == [c \in CalIds |-> <<>>]

----------------------------------------------------------------------------
(* Reconciliation of one account's calendars: the token never expires *)

InitReconcile ==
  /\ now = 0
  /\ oauth_accounts = [a \in {"a1"} |-> OAuthAccount(a, "u1", "at0", "rt0", Nil)]
  /\ calendar_sources = {}
  /\ external_events = {}
  /\ provider = Provider(oauth_accounts, [NoCalendars EXCEPT !["a1"] = <<Cal("c1")>>],
                         NoEvents, TokenKeys)
  /\ session = NewSession
  /\ req = IdleReq

NextReconcile ==
  \/ \E e \in Gains("c1", RichEvents, {EvA("e3")}) : ProviderAddsEvent("c1", e)
  \/ ProviderDropsEvent("c1")
  \/ \E cals \in CalLists : ProviderSetsCalendars("a1", cals)
  \/ \E u \in Users : StartSyncUser(u)
  \/ \E id \in 0..1 : StartSyncCalendar(id)
  \/ RefreshNotNeeded
  \/ ListCalendarsOK
  \/ ProviderCallFails
  \/ SyncCalendarSource
  \/ GetEventsOK
  \/ Commit

SpecReconcile == InitReconcile /\ [][NextReconcile]_vars

----------------------------------------------------------------------------
(* The token lifecycle of one account while the clock runs *)

InitToken ==
  /\ now = 0
  /\ \E refresh \in {None, "rt0"}, expires \in {Nil, MaxTime - 1} :
       oauth_accounts = [a \in {"a1"} |-> OAuthAccount(a, "u1", "at0", refresh, expires)]
  /\ calendar_sources = {}
  /\ external_events = {}
  /\ provider = Provider(oauth_accounts, [NoCalendars EXCEPT !["a1"] = <<Cal("c1")>>],
                         [NoEvents EXCEPT !["c1"] = <<EvA("e1")>>], TokenKeys)
  /\ session = NewSession
  /\ req = IdleReq

NextToken ==
  \/ Tick
  \/ StartSyncUser("u1")
  \/ \E id \in 0..1 : StartSyncCalendar(id)
  \/ RefreshNotNeeded
  \/ RefreshReauthRequired
  \/ RefreshRejected
  \/ RefreshAccepted
  \/ ListCalendarsOK
  \/ ProviderCallFails
  \/ SyncCalendarSource
  \/ GetEventsOK
  \/ Commit

SpecToken == InitToken /\ [][NextToken]_vars

----------------------------------------------------------------------------
(* Syncs of a user with two accounts: a1 lists the calendars c1 and c2, a2 *)
(* the calendar c2; each calendar holds no event, a storable one or one of *)
(* zero duration.  The clock starts one minute before the tokens that      *)
(* expire become due for a refresh.                                        *)

PlainLists == {<<>>, <<EvA("e1")>>, <<EvZ("e1")>>}
StoredLists == {<<EvA("e1")>>, <<EvZ("e1")>>}

TokenStates == {<<"rt0", Nil>>, <<None, MaxTime + Skew>>, <<"rt0", MaxTime + Skew>>}

Init ==
  /\ now = MaxTime - 1
  /\ \E tok \in [AccountIds -> TokenStates] :
       oauth_accounts = [a \in AccountIds |-> OAuthAccount(a, "u1", "at0", tok[a][1], tok[a][2])]
  /\ calendar_sources = {}
  /\ external_events = {}
  /\ \E held1 \in PlainLists, held2 \in StoredLists :
       provider = Provider(oauth_accounts,
                           [a \in AccountIds |->
                              IF a = "a1" THEN <<Cal("c1"), Cal("c2")>> ELSE <<Cal("c2")>>],
                           [c \in CalIds |-> IF c = "c1" THEN held1 ELSE held2],
                           {[refresh_token |-> None, expires_in |-> Nil]})
  /\ session = NewSession
  /\ req = IdleReq

Next ==
  \/ Tick
  \/ \E u \in Users : StartSyncUser(u)
  \/ \E id \in 0..1 : StartSyncCalendar(id)
  \/ RefreshNotNeeded
  \/ RefreshReauthRequired
  \/ RefreshRejected
  \/ RefreshAccepted
  \/ ListCalendarsOK
  \/ ProviderCallFails
  \/ SyncCalendarSource
  \/ GetEventsOK
  \/ Commit

Spec == Init /\ [][Next]_vars

----------------------------------------------------------------------------
(* routers/events.py: the responses of create_event, update_event and      *)
(* delete_event                                                            *)

\* the failures that are raised as ValueError; HttpError and IntegrityError
\* are other exceptions
ValueErrors == {"ValidationError", "NotFound", "NoRemoteId", "ReauthRequired",
                "TokenRefreshFailed"}

\* the status of the response: the except ValueError of the handler, then
\* its except Exception
StatusCode(op, result) ==
  IF result.status = "ok"
    THEN IF op = "create_event" THEN 201 ELSE IF op = "update_event" THEN 200 ELSE 204
  ELSE IF result.error \in ValueErrors
    THEN IF op = "delete_event" THEN 404 ELSE 400
  ELSE 500

----------------------------------------------------------------------------
(* Writes of single events to the calendar c1 of one account, and syncs of *)
(* that calendar.  The calendar holds the event e1, imported or not yet;   *)
(* the table holds a manual row, which has no provider id (the column is   *)
(* nullable and delete_event handles such rows).  The clock stands at the  *)
(* time the tokens that expire are due for a refresh.                      *)

Args(title, s, e, d) ==
  [NoArgs EXCEPT !.title = title, !.start_at = s, !.end_at = e, !.all_day = d]

\* the events created: timed, timed of zero duration, all-day over one
\* night, all-day with end = start
NewEvents ==
  {Args("N", 700, 760, "False"), Args("Z", 700, 700, "False"),
   [Args("D", DayMinutes, 2 * DayMinutes, "True") EXCEPT !.description = "note"],
   Args("S", DayMinutes, DayMinutes, "True")}

\* the updates: a new title with new times, times in the wrong order, a
\* title with only a start after the row's end, only an end before the row's
\* start
Patches ==
  {Args("T", 800, 860, None), Args(None, 800, 800, None),
   Args("L", 900, Nil, None), Args(None, Nil, 500, None)}

EventIds == 1..3

ManualRow(id, cs) ==
  ExternalEvent(id, cs, None,
                [title |-> "M", description |-> None, location |-> None,
                 start_at |-> 100, end_at |-> 160, all_day |-> FALSE,
                 status |-> "draft"], "manual")

InitWrites ==
  /\ now = MaxTime
  /\ \E tok \in TokenStates :
       oauth_accounts = [a \in {"a1"} |-> OAuthAccount(a, "u1", "at0", tok[1], tok[2])]
  /\ calendar_sources = {CalendarSource(1, "a1", Cal("c1"))}
  /\ \E imported \in SUBSET {ExternalEvent(1, 1, "e1", Canonical(EvA("e1")), "imported")} :
       external_events = imported \cup {ManualRow(2, 1)}
  /\ provider = Provider(oauth_accounts, [NoCalendars EXCEPT !["a1"] = <<Cal("c1")>>],
                         [NoEvents EXCEPT !["c1"] = <<EvA("e1")>>],
                         {[refresh_token |-> None, expires_in |-> Nil]})
  /\ session = NewSession
  /\ req = IdleReq

NextWrites ==
  \/ \E id \in 0..1, a \in NewEvents : StartCreateEvent(id, a)
  \/ \E id \in EventIds, p \in Patches : StartUpdateEvent(id, p)
  \/ \E id \in EventIds : StartDeleteEvent(id)
  \/ StartSyncCalendar(1)
  \/ RefreshNotNeeded
  \/ RefreshReauthRequired
  \/ RefreshRejected
  \/ RefreshAccepted
  \/ ProviderCallFails
  \/ CreateEventOK
  \/ UpdateEventOK
  \/ DeleteEventOK
  \/ GetEventsOK
  \/ Commit

SpecWrites == InitWrites /\ [][NextWrites]_vars

----------------------------------------------------------------------------
(* Two operations on the account a1 at the same time, each in its own      *)
(* session: req and session hold one entry for each.  The token endpoint   *)
(* answers every request with a new access token whose lifetime is longer  *)
(* than the skew.                                                          *)

Procs == {1, 2}

Unloaded == OAuthAccount(None, None, None, None, Nil)

\* an operation that has not started: the access token it loads, the answer
\* to its refresh request, the access token and expiry it assigns from that
\* answer, the rank of its commit among the commits
NotStarted ==
  [pc |-> "start", saw |-> None, answer |-> NoAnswer, pair |-> <<None, Nil>>,
   posts |-> 0, order |-> 0]

RaceAnswers(p) ==
  {[access_token |-> IF p = 1 THEN "at1" ELSE "at2",
    refresh_token |-> r, expires_in |-> e] : r \in {None, "rt1"}, e \in {Nil, Skew + 2}}

\* only the access token is written
UpdateRowAccessTokenOnly(stored, loaded, assigned) ==
  [stored EXCEPT !.access_token = assigned.access_token]

\* the UPDATE of the flush: it sets the columns whose assigned value differs
\* from the loaded one and leaves the others as they are stored
UpdateRow(stored, loaded, assigned) ==
  [stored EXCEPT
     !.access_token = IF assigned.access_token # loaded.access_token
                        THEN assigned.access_token ELSE @,
     !.token_expires_at = IF assigned.token_expires_at # loaded.token_expires_at
                            THEN assigned.token_expires_at ELSE @,
     !.refresh_token = IF assigned.refresh_token # loaded.refresh_token
                         THEN assigned.refresh_token ELSE @]

\* the operation's session loads the account row
LoadAccount(p) ==
  /\ req[p].pc = "start"
  /\ session' = [session EXCEPT ![p] = [loaded |-> oauth_accounts["a1"],
                                        account |-> oauth_accounts["a1"]]]
  /\ req' = [req EXCEPT ![p].pc = "refresh", ![p].saw = oauth_accounts["a1"].access_token]
  /\ UNCHANGED <<now, oauth_accounts, calendar_sources, external_events, provider>>

\* the loaded token is not due
LoadedTokenFresh(p) ==
  /\ req[p].pc = "refresh"
  /\ ~RefreshNeeded(session[p].account.token_expires_at, now)
  /\ req' = [req EXCEPT ![p].pc = "call"]
  /\ UNCHANGED <<now, oauth_accounts, calendar_sources, external_events, provider, session>>

\* requests.post answers 200: the attributes of the loaded object are assigned
PostRefresh(p) ==
  /\ req[p].pc = "refresh"
  /\ RefreshNeeded(session[p].account.token_expires_at, now)
  /\ ~NoRefreshToken(session[p].account)
  /\ \E tokens \in RaceAnswers(p) :
       LET assigned == Refreshed(session[p].account, tokens, now)
       IN /\ session' = [session EXCEPT ![p].account = assigned]
          /\ req' = [req EXCEPT ![p].pc = "commit", ![p].answer = tokens,
                                ![p].posts = @ + 1,
                                ![p].pair = <<assigned.access_token,
                                              assigned.token_expires_at>>]
  /\ UNCHANGED <<now, oauth_accounts, calendar_sources, external_events, provider>>

\* self.db.commit(); self.db.refresh(self.oauth_account)
CommitRefresh(p) ==
  /\ req[p].pc = "commit"
  /\ oauth_accounts' = [oauth_accounts EXCEPT !["a1"] =
                          UpdateRow(@, session[p].loaded, session[p].account)]
  /\ session' = [session EXCEPT ![p] = [loaded |-> oauth_accounts'["a1"],
                                        account |-> oauth_accounts'["a1"]]]
  /\ req' = [req EXCEPT ![p].pc = "call",
                        ![p].order = Cardinality({q \in Procs : req[q].order > 0}) + 1]
  /\ UNCHANGED <<now, calendar_sources, external_events, provider>>

\* the clock while an operation is under way
RaceTick ==
  /\ now < MaxTime
  /\ \E p \in Procs : req[p].pc # "call"
  /\ now' = now + 1
  /\ UNCHANGED <<oauth_accounts, calendar_sources, external_events, provider, session, req>>

Operation(p) == LoadAccount(p) \/ LoadedTokenFresh(p) \/ PostRefresh(p) \/ CommitRefresh(p)

InitRace ==
  /\ now = 0
  /\ oauth_accounts = [a \in {"a1"} |-> OAuthAccount(a, "u1", "at0", "rt0", Skew + 1)]
  /\ calendar_sources = {}
  /\ external_events = {}
  /\ provider = Provider(oauth_accounts, NoCalendars, NoEvents, TokenKeys)
  /\ session = [p \in Procs |-> [loaded |-> Unloaded, account |-> Unloaded]]
  /\ req = [p \in Procs |-> NotStarted]

NextRace ==
  \/ RaceTick
  \/ \E p \in Procs : LoadAccount(p)
  \/ \E p \in Procs : LoadedTokenFresh(p)
  \/ \E p \in Procs : PostRefresh(p)
  \/ \E p \in Procs : CommitRefresh(p)

\* each operation runs in a thread of its own, which the scheduler lets run
SpecRace ==
  InitRace /\ [][NextRace]_vars /\ \A p \in Procs : WF_vars(Operation(p))

----------------------------------------------------------------------------
(* routers/oauth.py: google_callback and google_disconnect, with syncs of  *)
(* the calendar c1 of the account a1 while the clock runs; it starts one   *)
(* minute before the first token is due for a refresh                      *)

\* an oauth_accounts row with the Google user it belongs to
ConnectedAccount(id, user, google_user_id, access, refresh, expires) ==
  [id |-> id, user_id |-> user, provider |-> "google",
   provider_account_id |-> google_user_id, access_token |-> access,
   refresh_token |-> refresh, token_expires_at |-> expires]

\* select(OAuthAccount).where(user_id == .., provider == "google",
\*                            provider_account_id == ..)
Connected(user, google_user_id) ==
  {a \in DOMAIN oauth_accounts :
     /\ oauth_accounts[a].user_id = user
     /\ oauth_accounts[a].provider = "google"
     /\ oauth_accounts[a].provider_account_id = google_user_id}

\* the stored refresh token is kept when the answer has none
ReconnectedKeeping(a, tokens, t) ==
  [a EXCEPT !.access_token = tokens.access_token,
            !.refresh_token = IF tokens.refresh_token # None THEN tokens.refresh_token ELSE @,
            !.token_expires_at = t + GetInt(tokens.expires_in, DefaultExpiresIn)]

\* the existing row after the callback: tokens.get("refresh_token") is
\* assigned, present or not
Reconnected(a, tokens, t) ==
  [a EXCEPT !.access_token = tokens.access_token,
            !.refresh_token = tokens.refresh_token,
            !.token_expires_at = t + GetInt(tokens.expires_in, DefaultExpiresIn)]

\* the token answers of the code exchange
GrantAnswers ==
  [access_token : {"at2"}, refresh_token : {None, "rt2"}, expires_in : {Nil, 3}]

\* GET /oauth/google/callback: the code is exchanged, the Google user is
\* read, the row of (user, google, Google user) is updated or a row is added
GoogleCallback(user, google_user_id, tokens) ==
  /\ req.pc = "done"
  /\ LET m == Connected(user, google_user_id)
         free == AccountIds \ DOMAIN oauth_accounts
         id == IF m # {} THEN CHOOSE a \in m : TRUE ELSE CHOOSE a \in free : TRUE
     IN /\ m # {} \/ free # {}
        /\ oauth_accounts' =
             [a \in DOMAIN oauth_accounts \cup {id} |->
                IF a # id THEN oauth_accounts[a]
                ELSE IF m # {} THEN Reconnected(oauth_accounts[a], tokens, now)
                ELSE ConnectedAccount(id, user, google_user_id, tokens.access_token,
                                      tokens.refresh_token,
                                      now + GetInt(tokens.expires_in, DefaultExpiresIn))]
        /\ provider' = [provider EXCEPT !.granted[id] = tokens.refresh_token,
                                        !.answered[id] = NoAnswer,
                                        !.returned[id] = None]
        /\ req' = Returned([IdleReq EXCEPT !.op = "google_callback", !.acct = id,
                                           !.callback = [user |-> user,
                                                         google_user_id |-> google_user_id,
                                                         tokens |-> tokens]], 0, 0)
  /\ session' = NewSession
  /\ UNCHANGED <<now, calendar_sources, external_events>>

\* the code exchange or the userinfo request is not answered with a 200
GoogleCallbackRejected(user) ==
  /\ req.pc = "done"
  /\ req' = Failed([IdleReq EXCEPT !.op = "google_callback",
                                   !.callback = [NoCallback EXCEPT !.user = user]],
                   "BadRequest")
  /\ session' = NewSession
  /\ UNCHANGED <<now, oauth_accounts, calendar_sources, external_events, provider>>

\* POST /oauth/google/disconnect: the user's google accounts are deleted,
\* and their calendar sources and events with them
GoogleDisconnect(user) ==
  /\ req.pc = "done"
  /\ LET m == {a \in DOMAIN oauth_accounts :
                 oauth_accounts[a].user_id = user /\ oauth_accounts[a].provider = "google"}
         gone == {c \in calendar_sources : c.oauth_account_id \in m}
         r == [IdleReq EXCEPT !.op = "google_disconnect"]
     IN /\ oauth_accounts' = [a \in DOMAIN oauth_accounts \ m |-> oauth_accounts[a]]
        /\ calendar_sources' = calendar_sources \ gone
        /\ external_events' =
             {e \in external_events : \A c \in gone : e.calendar_source_id # c.id}
        /\ req' = IF m = {} THEN Failed(r, "NotFound") ELSE Returned(r, 0, 0)
        /\ session' = [NewSession EXCEPT !.calendar_sources = calendar_sources',
                                         !.external_events = external_events']
  /\ UNCHANGED <<now, provider>>

GoogleUsers == {"p1", "p2"}

InitOAuth ==
  /\ now = MaxTime - 2
  /\ oauth_accounts = [a \in {"a1"} |->
                         ConnectedAccount(a, "u1", "p1", "at0", "rt0", MaxTime + Skew - 1)]
  /\ calendar_sources = {CalendarSource(1, "a1", Cal("c1"))}
  /\ external_events = {}
  /\ provider = Provider([a \in AccountIds |-> oauth_accounts["a1"]],
                         [NoCalendars EXCEPT !["a1"] = <<Cal("c1")>>],
                         [NoEvents EXCEPT !["c1"] = <<EvA("e1")>>],
                         {[refresh_token |-> None, expires_in |-> Nil]})
  /\ session = NewSession
  /\ req = IdleReq

NextOAuth ==
  \/ Tick
  \/ \E g \in GoogleUsers, tokens \in GrantAnswers : GoogleCallback("u1", g, tokens)
  \/ GoogleCallbackRejected("u1")
  \/ GoogleDisconnect("u1")
  \/ \E id \in 0..1 : StartSyncCalendar(id)
  \/ RefreshNotNeeded
  \/ RefreshReauthRequired
  \/ RefreshRejected
  \/ RefreshAccepted
  \/ ProviderCallFails
  \/ GetEventsOK
  \/ Commit

SpecOAuth == InitOAuth /\ [][NextOAuth]_vars

----------------------------------------------------------------------------
(* services/task_parser.py: parse_task_line.  A line is a sequence of      *)
(* characters; a float is a 53-bit mantissa m and an exponent e, standing  *)
(* for m / 2^e; the numbers too large for an integer are sequences of      *)
(* digits in base 10000, the most significant first.                       *)

Whitespace == {" "}
DigitChars == {"0", "1", "2", "3", "4", "5", "6", "7", "8", "9"}

DigitValue(c) ==
  CASE c = "0" -> 0 [] c = "1" -> 1 [] c = "2" -> 2 [] c = "3" -> 3 [] c = "4" -> 4
    [] c = "5" -> 5 [] c = "6" -> 6 [] c = "7" -> 7 [] c = "8" -> 8 [] c = "9" -> 9

\* str.lower() of a character
Lower(c) ==
  CASE c = "M" -> "m" [] c = "I" -> "i" [] c = "N" -> "n" [] c = "S" -> "s"
    [] c = "U" -> "u" [] c = "T" -> "t" [] c = "E" -> "e" [] c = "H" -> "h"
    [] c = "R" -> "r" [] c = "O" -> "o" [] c = "A" -> "a" [] c = "B" -> "b"
    [] OTHER -> c

MinuteUnits ==
  {<<"m">>, <<"m", "i", "n">>, <<"m", "i", "n", "s">>,
   <<"m", "i", "n", "u", "t", "e">>, <<"m", "i", "n", "u", "t", "e", "s">>}
HourUnits ==
  {<<"h">>, <<"h", "r">>, <<"h", "r", "s">>, <<"h", "o", "u", "r">>,
   <<"h", "o", "u", "r", "s">>}

\* the number of characters of S in a row from position p of L
RECURSIVE Run(_, _, _)
Run(L, p, S) == IF p <= Len(L) /\ L[p] \in S THEN 1 + Run(L, p + 1, S) ELSE 0

\* the number of characters of S in a row at the end of L
RECURSIVE RunBack(_, _)
RunBack(L, S) ==
  IF L # <<>> /\ L[Len(L)] \in S THEN 1 + RunBack(SubSeq(L, 1, Len(L) - 1), S) ELSE 0

\* str.strip()
Strip(L) == SubSeq(L, 1 + Run(L, 1, Whitespace), Len(L) - RunBack(L, Whitespace))

\* re.match of \s+(\d+\.?\d*)\s*(m|min|...|hours)\s*$ at position i, ignoring
\* case: [found, number, unit]
MatchAt(L, i) ==
  LET ws == Run(L, i, Whitespace)
      n == i + ws
      whole == Run(L, n, DigitChars)
      dot == IF n + whole <= Len(L) /\ L[n + whole] = "." THEN 1 ELSE 0
      frac == IF dot = 1 THEN Run(L, n + whole + 1, DigitChars) ELSE 0
      g == n + whole + dot + frac
      u == g + Run(L, g, Whitespace)
      word == SubSeq(L, u, Len(L) - RunBack(L, Whitespace))
      unit == [k \in 1..Len(word) |-> Lower(word[k])]
  IN [found |-> ws >= 1 /\ whole >= 1 /\ unit \in MinuteUnits \cup HourUnits,
      number |-> SubSeq(L, n, g - 1),
      unit |-> unit]

\* re.search: the leftmost position with a match, 0 if there is none
Search(L) ==
  LET at == {i \in 1..Len(L) : MatchAt(L, i).found}
  IN IF at = {} THEN 0 ELSE CHOOSE i \in at : \A j \in at : i <= j

\* a * m + c
RECURSIVE MulAdd(_, _, _)
MulAdd(a, m, c) ==
  IF a = <<>> THEN (IF c = 0 THEN <<>> ELSE <<c>>)
  ELSE LET cur == a[Len(a)] * m + c
       IN Append(MulAdd(SubSeq(a, 1, Len(a) - 1), m, cur \div 10000), cur % 10000)

\* [q, r]: a = q * m + r
RECURSIVE DivMod(_, _)
DivMod(a, m) ==
  IF a = <<>> THEN [q |-> <<>>, r |-> 0]
  ELSE LET p == DivMod(SubSeq(a, 1, Len(a) - 1), m)
           cur == p.r * 10000 + a[Len(a)]
       IN [q |-> Append(p.q, cur \div m), r |-> cur % m]

\* a < b: without their leading zeros, the shorter is the smaller, and of
\* two of one length the one with the smaller first digit that differs
Less(a, b) ==
  LET RECURSIVE Norm(_)
      Norm(t) == IF t # <<>> /\ t[1] = 0 THEN Norm(Tail(t)) ELSE t
      RECURSIVE LessDigits(_, _)
      LessDigits(t, u) ==
        IF t = <<>> THEN FALSE
        ELSE IF t[1] # u[1] THEN t[1] < u[1]
        ELSE LessDigits(Tail(t), Tail(u))
      x == Norm(a)
      y == Norm(b)
  IN IF Len(x) # Len(y) THEN Len(x) < Len(y) ELSE LessDigits(x, y)

RECURSIVE Pow2(_)
Pow2(k) ==
  IF k = 0 THEN <<1>>
  ELSE IF k >= 13 THEN MulAdd(Pow2(k - 13), 8192, 0)
  ELSE MulAdd(Pow2(k - 1), 2, 0)

\* a / m rounded to the nearest integer, to the even one of two
RoundedDiv(a, m) ==
  LET d == DivMod(a, m)
      odd == d.q # <<>> /\ d.q[Len(d.q)] % 2 = 1
  IN IF 2 * d.r > m \/ (2 * d.r = m /\ odd) THEN MulAdd(d.q, 1, 1) ELSE d.q

\* float(text) of a text that matches \d+\.?\d*: zero, or the double
\* nearest to the number written; the exponent grows, by 13 bits or by
\* one, until the mantissa has 53 bits
float(text) ==
  LET digits == SelectSeq(text, LAMBDA c : c \in DigitChars)
      whole == Run(text, 1, DigitChars)
      decimals == Len(digits) - whole
      RECURSIVE Number(_)
      Number(t) == IF t = <<>> THEN <<>>
                   ELSE MulAdd(Number(SubSeq(t, 1, Len(t) - 1)), 10, DigitValue(t[Len(t)]))
      RECURSIVE Pow10(_)
      Pow10(k) == IF k = 0 THEN 1 ELSE 10 * Pow10(k - 1)
      RECURSIVE Nearest(_, _, _)
      Nearest(a, den, e) ==
        LET q == DivMod(a, den).q
        IN IF Less(q, Pow2(39)) THEN Nearest(MulAdd(a, 8192, 0), den, e + 13)
           ELSE IF Less(q, Pow2(52)) THEN Nearest(MulAdd(a, 2, 0), den, e + 1)
           ELSE [m |-> RoundedDiv(a, den), e |-> e]
  IN IF \A k \in 1..Len(digits) : digits[k] = "0" THEN [m |-> <<>>, e |-> 0]
     ELSE Nearest(Number(digits), Pow10(decimals), 0)

\* x * 60 in floating point: the product of the mantissa, cut to 53 bits
\* and rounded
Times60(x) ==
  LET RECURSIVE Rounded(_, _, _)
      Rounded(a, e, s) ==
        IF Less(DivMod(a, s).q, Pow2(53))
          THEN [m |-> RoundedDiv(a, s), e |-> e]
          ELSE Rounded(a, e - 1, 2 * s)
  IN IF x.m = <<>> THEN x ELSE Rounded(MulAdd(x.m, 60, 0), x.e, 1)

\* int(x): the integer part
int(x) ==
  LET RECURSIVE Halved(_, _)
      Halved(a, k) ==
        IF k = 0 THEN a
        ELSE IF k >= 13 THEN Halved(DivMod(a, 8192).q, k - 13)
        ELSE Halved(DivMod(a, 2).q, k - 1)
      RECURSIVE ToInt(_)
      ToInt(a) == IF a = <<>> THEN 0 ELSE ToInt(SubSeq(a, 1, Len(a) - 1)) * 10000 + a[Len(a)]
  IN ToInt(Halved(x.m, x.e))

\* parse_task_line(line) -> (title, duration_minutes, confidence, parse_method)
parse_task_line(line) ==
  LET L == Strip(line)
      i == Search(L)
      found == MatchAt(L, i)
      value == float(found.number)
  IN IF L = <<>> THEN <<<<>>, 60, "0.0", "empty">>
     ELSE IF i # 0
       THEN <<Strip(SubSeq(L, 1, i - 1)),
              IF found.unit \in MinuteUnits THEN int(value) ELSE int(Times60(value)),
              "1.0", "regex_v1">>
     ELSE <<L, 60, "0.5", "default">>

----------------------------------------------------------------------------
(* Lines given to parse_task_line: a title, whitespace, a number, a unit,  *)
(* each present or not, between leading and trailing whitespace            *)

Lines ==
  LET Titles ==
        {<<>>, <<"a">>, <<"a", " ", "1">>,
         <<"T", "e", "a", "m", " ", "m", "e", "e", "t", "i", "n", "g">>,
         <<"B", "u", "y", " ", "g", "r", "o", "c", "e", "r", "i", "e", "s">>}
      Gaps == {<<>>, <<" ">>, <<" ", " ">>}
      Numbers ==
        {<<>>, <<"3", "0">>, <<"9", "0">>, <<"0">>, <<"2", ".", "5">>, <<"1", ".">>,
         <<".", "5">>, <<"1", ".", "5">>, <<"4", ".", "1">>, <<"1", ".", "1">>}
      Words ==
        MinuteUnits \cup HourUnits
          \cup {<<>>, <<"x">>, <<"m", "i">>, <<"M">>, <<"H", "r">>, <<"M", "i", "n">>}
  IN {lead \o t \o g \o n \o h \o w \o trail :
        lead \in {<<>>, <<" ">>}, t \in Titles, g \in Gaps, n \in Numbers,
        h \in {<<>>, <<" ">>}, w \in Words, trail \in {<<>>, <<" ">>}}

InitParse ==
  /\ now = 0
  /\ oauth_accounts = <<>>
  /\ calendar_sources = {}
  /\ external_events = {}
  /\ provider = <<>>
  /\ session = <<>>
  /\ \E line \in Lines :
       req = [op |-> "parse_task_line", pc |-> "call", line |-> line, result |-> <<<<>>, 0, None, None>>]

ParseTaskLine ==
  /\ req.pc = "call"
  /\ req' = [req EXCEPT !.pc = "done", !.result = parse_task_line(req.line)]
  /\ UNCHANGED <<now, oauth_accounts, calendar_sources, external_events, provider, session>>

NextParse == ParseTaskLine

SpecParse == InitParse /\ [][NextParse]_vars

----------------------------------------------------------------------------
(* create_event and a sync of the same calendar at the same time, each in  *)
(* its own session on the committed tables: req and session hold one entry *)
(* for each.  The token of the account never expires, so no call           *)
(* refreshes.  A statement sees the rows committed when it runs            *)
(* (the engine is created with the default isolation level).               *)

Together == {"create_event", "sync_calendar"}

\* an operation whose provider call comes next: the arguments of
\* create_event, the id the provider gave, the items the sync listed, what
\* the operation returned or raised
Calling(a) ==
  [pc |-> "call", args |-> a, gid |-> None, items |-> <<>>, outcome |-> None]

\* the session's view of the tables at a statement
View == [active |-> TRUE, calendar_sources |-> calendar_sources,
         external_events |-> external_events, new |-> {}]

\* the flush and commit of a session on the committed table: the UPDATEs of
\* the rows it loaded, then its INSERTs, each new row under a new id
Committed(table, sess) ==
  LET RECURSIVE Inserted(_, _)
      Inserted(rows, new) ==
        IF new = {} THEN rows
        ELSE LET r == CHOOSE x \in new : TRUE
             IN Inserted(rows \cup {[r EXCEPT !.id = FreshId(rows)]}, new \ {r})
  IN Inserted({r \in table : r.id \notin {x.id : x \in sess.external_events}}
                \cup sess.external_events,
              sess.new)

\* google_service.create_event(...): events().insert() answers
InsertAtProvider ==
  /\ req["create_event"].pc = "call"
  /\ LET free == ProviderIds \ {provider.events["c1"][i].id : i \in 1..Len(provider.events["c1"])}
     IN /\ free # {}
        /\ LET gid == CHOOSE g \in free : TRUE
           IN /\ provider' = [provider EXCEPT !.events["c1"] =
                                Append(@, InsertBody(gid, req["create_event"].args))]
              /\ req' = [req EXCEPT !["create_event"].pc = "add", !["create_event"].gid = gid]
  /\ UNCHANGED <<now, oauth_accounts, calendar_sources, external_events, session>>

\* self.db.add(external_event); self.db.commit()
AddAndCommit ==
  /\ req["create_event"].pc = "add"
  /\ LET a == req["create_event"].args
         row == ExternalEvent(Nil, 1, req["create_event"].gid,
                              [title |-> a.title, description |-> a.description,
                               location |-> a.location, start_at |-> a.start_at,
                               end_at |-> a.end_at, all_day |-> a.all_day = "True",
                               status |-> "confirmed"], "generated")
         sess == [View EXCEPT !.external_events = {}, !.new = {row}]
     IN IF FlushOK(sess)
          THEN /\ external_events' = Committed(external_events, sess)
               /\ req' = [req EXCEPT !["create_event"].pc = "done",
                                     !["create_event"].outcome = "ok"]
          ELSE /\ external_events' = external_events
               /\ req' = [req EXCEPT !["create_event"].pc = "done",
                                     !["create_event"].outcome = "IntegrityError"]
  /\ UNCHANGED <<now, oauth_accounts, calendar_sources, provider, session>>

\* google_service.get_events(...): events().list() answers
ListEvents ==
  /\ req["sync_calendar"].pc = "call"
  /\ req' = [req EXCEPT !["sync_calendar"].pc = "events",
                        !["sync_calendar"].items = EventsPage("c1")]
  /\ UNCHANGED <<now, oauth_accounts, calendar_sources, external_events, provider, session>>

\* the loop of _sync_calendar_events over the listed items
SyncListed ==
  /\ req["sync_calendar"].pc = "events"
  /\ session' = [session EXCEPT !["sync_calendar"] =
                   SyncEvents(View, 1, req["sync_calendar"].items).session]
  /\ req' = [req EXCEPT !["sync_calendar"].pc = "commit"]
  /\ UNCHANGED <<now, oauth_accounts, calendar_sources, external_events, provider>>

\* self.db.commit() of sync_calendar_source
CommitSync ==
  /\ req["sync_calendar"].pc = "commit"
  /\ IF FlushOK(session["sync_calendar"])
       THEN /\ external_events' = Committed(external_events, session["sync_calendar"])
            /\ req' = [req EXCEPT !["sync_calendar"].pc = "done",
                                  !["sync_calendar"].outcome = "ok"]
       ELSE /\ external_events' = external_events
            /\ req' = [req EXCEPT !["sync_calendar"].pc = "done",
                                  !["sync_calendar"].outcome = "IntegrityError"]
  /\ UNCHANGED <<now, oauth_accounts, calendar_sources, provider, session>>

\* the calendar holds no event, e1 or e2; e1 is imported already or not yet
InitTogether ==
  /\ now = 0
  /\ oauth_accounts = [a \in {"a1"} |-> OAuthAccount(a, "u1", "at0", "rt0", Nil)]
  /\ calendar_sources = {CalendarSource(1, "a1", Cal("c1"))}
  /\ \E held \in {<<>>, <<EvA("e1")>>, <<EvB("e2")>>} :
       /\ provider = Provider(oauth_accounts, [NoCalendars EXCEPT !["a1"] = <<Cal("c1")>>],
                              [NoEvents EXCEPT !["c1"] = held],
                              {[refresh_token |-> None, expires_in |-> Nil]})
       /\ \E imported \in SUBSET {ExternalEvent(1, 1, held[i].id, Canonical(held[i]), "imported") :
                                    i \in 1..Len(held)} :
            external_events = imported \cup {ManualRow(2, 1)}
  /\ session = [o \in Together |-> View]
  /\ \E a \in {x \in NewEvents : ~CreateRejected(x)} :
       req = [o \in Together |-> Calling(IF o = "create_event" THEN a ELSE NoArgs)]

NextTogether ==
  \/ InsertAtProvider
  \/ AddAndCommit
  \/ ListEvents
  \/ SyncListed
  \/ CommitSync

SpecTogether == InitTogether /\ [][NextTogether]_vars

----------------------------------------------------------------------------
(* Token refresh *)

\* C1: a provider operation of an account whose stored expiry is T attempts
\* a refresh before its provider call exactly when now >= T - 5 minutes;
\* when now < T - 5 minutes it sends no refresh request, leaves the stored
\* tokens as they are and goes on to the provider call.
C1_RefreshIffDue ==
  [][req.pc = "refresh" /\ req' # req /\ Acct.token_expires_at # Nil =>
       LET T == Acct.token_expires_at
           attempted == req'.posts = req.posts + 1 \/ req'.reauths = req.reauths + 1
       IN /\ attempted <=> now >= T - Skew
          /\ now < T - Skew =>
                /\ req'.posts = req.posts
                /\ req'.api_calls = req.api_calls
                /\ oauth_accounts' = oauth_accounts
                /\ req'.pc = "call"]_vars

\* a refresh went through before the event fetch that is about to be sent
C1_Witness ==
  /\ req.pc = "call"
  /\ req.call = "get_events"
  /\ req.posts = 1
  /\ provider.answered[req.acct] # NoAnswer

\* C2: for an account with no refresh token whose access token is due for
\* refresh, the validity check fails with ReauthRequired, sends no request
\* to the token endpoint or to the calendar API, and leaves the account's
\* access token, refresh token and expiry unchanged.
C2_ReauthWithoutRequest ==
  [][/\ req.pc = "refresh" /\ req' # req
     /\ Acct.token_expires_at # Nil /\ now >= Acct.token_expires_at - Skew
     /\ Acct.refresh_token = None
     => /\ req'.reauths = req.reauths + 1
        /\ req'.posts = req.posts
        /\ req'.api_calls = req.api_calls
        /\ oauth_accounts' = oauth_accounts
        /\ req.op = "sync_calendar" => req'.result.error = "ReauthRequired"]_vars

\* a sync of one calendar failed with ReauthRequired and sent nothing
C2_Witness ==
  /\ req.op = "sync_calendar"
  /\ req.pc = "done"
  /\ req.result.error = "ReauthRequired"
  /\ req.reauths = 1
  /\ req.posts = 0
  /\ req.api_calls = 0

\* C3: a successful refresh stores the answer's access token and the expiry
\* now + the answer's TTL, and replaces the refresh token only when the
\* answer carries one; at all times the stored refresh token is the last one
\* a successful refresh returned, or the granted one if none returned any,
\* and no refresh empties it.
C3_RefreshKeepsRefreshToken ==
  /\ [](\A a \in DOMAIN oauth_accounts :
          oauth_accounts[a].refresh_token =
            IF provider.returned[a] # None THEN provider.returned[a] ELSE provider.granted[a])
  /\ [][req.pc = "refresh" /\ req'.pc = "call" /\ req'.posts = req.posts + 1 =>
          LET old == oauth_accounts[req.acct]
              new == oauth_accounts'[req.acct]
              answer == provider'.answered[req.acct]
          IN /\ new.access_token = answer.access_token
             /\ new.access_token # old.access_token
             /\ new.token_expires_at =
                  now + (IF answer.expires_in = Nil THEN DefaultExpiresIn ELSE answer.expires_in)
             /\ new.refresh_token =
                  IF answer.refresh_token = None THEN old.refresh_token
                  ELSE answer.refresh_token
             /\ new.refresh_token \notin {None, ""}]_vars

\* a refresh that returned a refresh token was followed by one that did not
C3_Witness ==
  /\ req.pc = "call"
  /\ req.posts >= 1
  /\ provider.returned[req.acct] # None
  /\ provider.answered[req.acct] # NoAnswer
  /\ provider.answered[req.acct].refresh_token = None
  /\ Acct.refresh_token = provider.returned[req.acct]

\* C4: whenever the validity check fails with ReauthRequired during an
\* operation, a bulk sync of a user's accounts and the event fetch of one of
\* its calendars included, the operation ends with the ReauthRequired
\* failure; it never ends with a successful result with counts.
C4_ReauthReachesCaller ==
  req.pc = "done" /\ req.reauths > 0 =>
    req.result.status = "error" /\ req.result.error = "ReauthRequired"

----------------------------------------------------------------------------
(* Reconciliation *)

\* C5: after a sync of calendar c1 completes, every event the provider holds
\* for c1 in the queried window (its ids distinct, its dates well formed) has
\* exactly one cached row of that calendar source and external id, whose
\* title, description, location, start, end, all-day flag and status are the
\* event's canonical values.
C5_EveryRemoteEventCached ==
  LET held == provider.events["c1"]
      ids == {held[i].id : i \in 1..Len(held)}
      synced == /\ req.pc = "done"
                /\ req.result.status = "ok"
                /\ \/ req.op = "sync_calendar"
                   \/ /\ req.op = "sync_user"
                      /\ \E i \in 1..Len(req.cal_log) :
                           req.cal_log[i].id = "c1" /\ req.cal_log[i].outcome = "ok"
      wellformed == /\ Cardinality(ids) = Len(held)
                    /\ \A i \in 1..Len(held) : ~ParseRaises(held[i])
  IN synced /\ wellformed =>
       \A i \in 1..Len(held) :
         \A c \in MatchingSource(calendar_sources, "a1", "c1") :
           LET rows == Matching(external_events, c.id, held[i].id)
           IN /\ Cardinality(rows) = 1
              /\ \A r \in rows : Updated(r, Canonical(held[i])) = r

\* C6: after a sync of calendar c1 completes, an event it fetched, whether
\* it occurs once or several times with the same data in the fetched list and
\* whether or not an earlier pass cached it, has one cached row, holding the
\* event's values: reconciling it again adds no row and changes no field.
C6_SecondReconcileChangesNothing ==
  LET page == EventsPage("c1")
      synced == /\ req.pc = "done"
                /\ req.result.status = "ok"
                /\ \/ req.op = "sync_calendar"
                   \/ /\ req.op = "sync_user"
                      /\ \E i \in 1..Len(req.cal_log) :
                           req.cal_log[i].id = "c1" /\ req.cal_log[i].outcome = "ok"
      same(i) == \A j \in 1..Len(page) : page[j].id = page[i].id => page[j] = page[i]
  IN synced =>
       \A i \in 1..Len(page) :
         ~ParseRaises(page[i]) /\ same(i) =>
           \A c \in MatchingSource(calendar_sources, "a1", "c1") :
             /\ Cardinality(Matching(external_events, c.id, page[i].id)) = 1
             /\ \A r \in Matching(external_events, c.id, page[i].id) :
                  Updated(r, Canonical(page[i])) = r

\* C9: when the events of calendar c1 were fetched, an event that cannot be
\* stored (no parsable dates, or timed with an end not after its start) is
\* skipped alone: events_synced counts exactly the other events of the
\* list, and each of them has its row once the sync is over.
C9_UnstorableEventSkippedAlone ==
  LET page == EventsPage("c1")
      storable == {i \in 1..Len(page) :
                     /\ ~ParseRaises(page[i])
                     /\ all_day(page[i]) \/ end_at(page[i]) > start_at(page[i])}
      fetched == /\ req.pc = "done"
                 /\ \/ /\ req.op = "sync_calendar"
                       /\ req.api_calls = 1
                       /\ req.result.error # "HttpError"
                    \/ /\ req.op = "sync_user"
                       /\ \E i \in 1..Len(req.cal_log) :
                            req.cal_log[i].id = "c1" /\ req.cal_log[i].outcome = "ok"
  IN fetched =>
       /\ req.total_events = Cardinality(storable)
       /\ \A i \in storable :
            \E c \in MatchingSource(calendar_sources, "a1", "c1") :
              Matching(external_events, c.id, page[i].id) # {}

\* C10: no step of a sync deletes a cached event or a calendar source; a
\* cached event whose id is absent from the remote event list of its
\* calendar, and a calendar source whose id is absent from the remote
\* calendar list of its account, stay with every field unchanged.
C10_SyncNeverDeletes ==
  [][/\ \A r \in external_events :
          /\ \E r2 \in external_events' : r2.id = r.id
          /\ (\A c \in calendar_sources :
                c.id = r.calendar_source_id =>
                  \A i \in 1..Len(provider.events[c.external_calendar_id]) :
                    provider.events[c.external_calendar_id][i].id # r.external_event_id)
               => r \in external_events'
     /\ \A c \in calendar_sources :
          /\ \E c2 \in calendar_sources' : c2.id = c.id
          /\ (\A i \in 1..Len(provider.calendars[c.oauth_account_id]) :
                provider.calendars[c.oauth_account_id][i].id # c.external_calendar_id)
               => c \in calendar_sources']_vars

\* a sync of calendar c1 ended well and left a cached event that the
\* provider no longer lists
C10_Witness ==
  /\ req.pc = "done"
  /\ req.result.status = "ok"
  /\ req.result.calendars = 1
  /\ \E r \in external_events :
       \A i \in 1..Len(provider.events["c1"]) :
         provider.events["c1"][i].id # r.external_event_id

----------------------------------------------------------------------------
(* Isolation of failures *)

\* C7: when the sync of an account returns its counts, the loop went through
\* every calendar the account lists, after a failing one too; the event
\* count is the sum of the counts of the calendars that did not fail; every
\* calendar that failed is counted, so that the calendar count is the number
\* of calendars listed.
C7_FailedCalendarCounted ==
  [][/\ req.op = "sync_user" /\ req.pc = "commit"
     /\ Len(req'.acct_log) = Len(req.acct_log) + 1
     /\ req'.acct_log[Len(req'.acct_log)].outcome = "ok"
     => LET log == req.cal_log
            entry == req'.acct_log[Len(req'.acct_log)]
        IN /\ Len(log) = Len(req.google_calendars)
           /\ \A i \in 1..Len(log) : log[i].id = req.google_calendars[i].id
           /\ \A i \in 1..Len(log) : log[i].outcome # "ok" => log[i].counted /\ log[i].events = 0
           /\ entry.events = SeqSum([i \in 1..Len(log) |-> log[i].events])
           /\ entry.calendars = Len(req.google_calendars)]_vars

\* the account synced last returned (2, 1): the fetch of its first calendar
\* failed, its second calendar gave one event
C7_Witness ==
  /\ req.op = "sync_user"
  /\ req.pc = "done"
  /\ req.result.status = "ok"
  /\ Len(req.cal_log) = 2
  /\ req.cal_log[1].outcome = "HttpError"
  /\ req.cal_log[2].outcome = "ok"
  /\ req.cal_log[2].events = 1
  /\ req.acct_log[Len(req.acct_log)].outcome = "ok"
  /\ req.acct_log[Len(req.acct_log)].calendars = 2
  /\ req.acct_log[Len(req.acct_log)].events = 1

\* C8: a bulk sync of a user's accounts never fails: it returns the sum of
\* the counts of the accounts that succeeded, an account that failed
\* contributing zero.
C8_BulkSyncNeverFails ==
  req.op = "sync_user" /\ req.pc = "done" =>
    /\ req.result.status = "ok"
    /\ req.result.calendars = SeqSum([i \in 1..Len(req.acct_log) |-> req.acct_log[i].calendars])
    /\ req.result.events = SeqSum([i \in 1..Len(req.acct_log) |-> req.acct_log[i].events])

----------------------------------------------------------------------------
(* Stored form of events and calendars *)

\* C14: after a sync of calendar c1, the one row of a fetched event is
\* all-day exactly when the remote start carries a date: then its start and
\* end are midnight UTC of the given dates, otherwise they are the given
\* instants; and a sync that starts with no cached event and fetches e1
\* (10:00 to 11:00) and e2 (date-only) commits exactly two rows, e1 timed
\* and 60 minutes long, e2 all-day.
C14_AllDayIffDateOnly ==
  /\ [](LET page == EventsPage("c1")
            synced == /\ req.pc = "done"
                      /\ req.result.status = "ok"
                      /\ \/ req.op = "sync_calendar"
                         \/ /\ req.op = "sync_user"
                            /\ \E i \in 1..Len(req.cal_log) :
                                 req.cal_log[i].id = "c1" /\ req.cal_log[i].outcome = "ok"
        IN synced =>
             \A i \in 1..Len(page) :
               \A c \in MatchingSource(calendar_sources, "a1", "c1") :
                 LET E == page[i]
                     rows == Matching(external_events, c.id, E.id)
                     once == \A j \in 1..Len(page) : page[j].id = E.id => j = i
                     dated == E.start.date # Nil /\ E.end.date # Nil
                     timed == E.start.date = Nil /\ E.start.dateTime # Nil /\ E.end.dateTime # Nil
                 IN once /\ Cardinality(rows) = 1 =>
                      \A r \in rows :
                        /\ dated => /\ r.all_day
                                    /\ r.start_at = E.start.date * DayMinutes
                                    /\ r.end_at = E.end.date * DayMinutes
                        /\ timed => /\ ~r.all_day
                                    /\ r.start_at = E.start.dateTime
                                    /\ r.end_at = E.end.dateTime)
  /\ [][/\ req.pc = "commit"
        /\ external_events = {}
        /\ EventsPage("c1") = <<EvA("e1"), EvB("e2")>>
        /\ req.total_events = 2
        /\ req'.result.status = "ok"
        => /\ Cardinality(external_events') = 2
           /\ \E r \in external_events' :
                r.external_event_id = "e1" /\ ~r.all_day /\ r.end_at - r.start_at = 60
           /\ \E r \in external_events' :
                r.external_event_id = "e2" /\ r.all_day]_vars

\* the sync of the list e1 (timed), e2 (date-only) left two rows
C14_Witness ==
  /\ req.pc = "done"
  /\ req.result.status = "ok"
  /\ req.result.events = 2
  /\ provider.events["c1"] = <<EvA("e1"), EvB("e2")>>
  /\ Cardinality(external_events) = 2
  /\ \E r \in external_events : r.external_event_id = "e1" /\ ~r.all_day
  /\ \E r \in external_events : r.external_event_id = "e2" /\ r.all_day /\ r.start_at = DayMinutes

\* C15 as stated: with a stored expiry T, a provider call at T - 10 minutes
\* triggers a refresh, a call at T - 1 minute triggers a refresh, and a call
\* at T - 6 minutes does not.
C15_AsStated ==
  [][req.pc = "refresh" /\ req' # req /\ Acct.token_expires_at # Nil =>
       LET T == Acct.token_expires_at
           attempted == req'.posts = req.posts + 1 \/ req'.reauths = req.reauths + 1
       IN /\ now = T - 10 => attempted
          /\ now = T - 1 => attempted
          /\ now = T - 6 => ~attempted]_vars

\* C15 amended: with a stored expiry T, a provider call at T - 10 minutes
\* and a call at T - 6 minutes trigger no refresh, a call at T - 1 minute
\* triggers one.
C15_RefreshBoundary ==
  [][req.pc = "refresh" /\ req' # req /\ Acct.token_expires_at # Nil =>
       LET T == Acct.token_expires_at
           attempted == req'.posts = req.posts + 1 \/ req'.reauths = req.reauths + 1
       IN /\ now = T - 10 => ~attempted /\ req'.pc = "call"
          /\ now = T - 6 => ~attempted /\ req'.pc = "call"
          /\ now = T - 1 => attempted]_vars

\* a provider call is about to go out at T - 10 minutes, no refresh made
C15_Witness ==
  /\ req.pc = "call"
  /\ req.posts = 0
  /\ Acct.token_expires_at # Nil
  /\ now = Acct.token_expires_at - 10

\* C18: after a sync of account a1, every calendar the provider lists for
\* a1 has exactly one calendar source row of that account and external id,
\* whose name, primary flag and timezone are the remote values (the
\* defaults "Unnamed Calendar", false, "UTC" for a missing key).
C18_OneSourcePerRemoteCalendar ==
  LET listed == provider.calendars["a1"]
      synced == /\ req.op = "sync_user"
                /\ req.pc = "done"
                /\ req.result.status = "ok"
                /\ \E i \in 1..Len(req.acct_log) :
                     req.acct_log[i].acct = "a1" /\ req.acct_log[i].outcome = "ok"
  IN synced =>
       \A i \in 1..Len(listed) :
         LET rows == {c \in calendar_sources :
                        c.oauth_account_id = "a1" /\ c.external_calendar_id = listed[i].id}
         IN /\ Cardinality(rows) = 1
            /\ \A c \in rows :
                 /\ c.name = IF listed[i].summary = None THEN "Unnamed Calendar"
                             ELSE listed[i].summary
                 /\ c.is_primary = listed[i].primary
                 /\ c.timezone = IF listed[i].timeZone = None THEN "UTC"
                                 ELSE listed[i].timeZone

\* the source of c1, with cached events, after a sync that listed c1 without
\* summary, primary and timeZone
C18_Witness ==
  /\ req.op = "sync_user"
  /\ req.pc = "done"
  /\ req.result.status = "ok"
  /\ provider.calendars["a1"] = <<BareCal("c1")>>
  /\ external_events # {}
  /\ \E c \in calendar_sources :
       c.external_calendar_id = "c1" /\ c.name = "Unnamed Calendar" /\ c.timezone = "UTC"

\* C20: every provider call of an operation carries the access token stored
\* for the account when the call is made; no call after a successful
\* refresh carries the token from before the refresh.
C20_CallsCarryStoredToken ==
  [][req'.api_calls = req.api_calls + 1 /\ req.pc = "call" =>
       req'.api_token = oauth_accounts[req.acct].access_token]_vars

\* the second call of a sync went out with the token of the refresh made
\* within the sync
C20_Witness ==
  /\ req.op = "sync_user"
  /\ req.call = "get_events"
  /\ req.posts = 1
  /\ req.api_calls = 2
  /\ req.api_token # "at0"
  /\ req.api_token = provider.answered["a1"].access_token

----------------------------------------------------------------------------
(* Writes of single events *)

Writes == {"create_event", "update_event", "delete_event"}

\* the provider's calendar of the row r holds no event with the row's id
GoneRemotely(r) ==
  LET ext == (CHOOSE c \in calendar_sources : c.id = r.calendar_source_id).external_calendar_id
  IN \A i \in 1..Len(provider.events[ext]) :
       provider.events[ext][i].id # r.external_event_id

\* C11: delete_event removes the row of an event that has a remote id only
\* in the step in which the provider's delete call succeeds; when the
\* provider call or the refresh before it fails, the rows are as they were;
\* a row with no remote id is removed without token refresh or provider call.
C11_DeleteAfterRemoteDelete ==
  [][/\ \A r \in external_events :
          (\A q \in external_events' : q.id # r.id) =>
             /\ req'.op = "delete_event"
             /\ req'.target = r.id
             /\ req'.pc = "done"
             /\ req'.result.status = "ok"
             /\ IF r.external_event_id # None
                  THEN /\ req.pc = "call"
                       /\ req'.api_calls = req.api_calls + 1
                       /\ GoneRemotely(r)'
                  ELSE /\ req'.posts = 0
                       /\ req'.reauths = 0
                       /\ req'.api_calls = 0
     /\ req'.op = "delete_event" /\ req' # req
          /\ (req'.pc # "done" \/ req'.result.status = "error")
          => external_events' = external_events]_vars

\* a delete failed at the provider call and the row with its remote id is
\* still cached
C11_Witness ==
  /\ req.op = "delete_event"
  /\ req.pc = "done"
  /\ req.result.error = "HttpError"
  /\ req.api_calls = 1
  /\ \E r \in external_events : r.id = req.target /\ r.external_event_id # None

\* C12: a create_event, update_event or delete_event that returns a failure
\* has changed neither the events the provider holds nor the cached events.
C12_FailedWriteChangesNothing ==
  [][/\ req'.op \in Writes /\ req' # req
     /\ (req'.pc # "done" \/ req'.result.status = "error")
     => /\ external_events' = external_events
        /\ provider'.events = provider.events]_vars

\* C13: create_event fails with a validation error exactly when the event is
\* not all-day and its end is not after its start; a validation failure makes
\* no token refresh, no provider call and no local change.
C13_ValidationOfTimedEventsOnly ==
  [][req'.op = "create_event" /\ req' # req /\ req.pc = "done" =>
       /\ (req'.pc = "done" /\ req'.result.error = "ValidationError")
            <=> (req'.args.all_day # "True" /\ req'.args.end_at <= req'.args.start_at)
       /\ req'.pc = "done" /\ req'.result.error = "ValidationError" =>
            /\ req'.posts = 0
            /\ req'.reauths = 0
            /\ req'.api_calls = 0
            /\ external_events' = external_events
            /\ provider' = provider]_vars

\* C16: at most one cached row for each pair of a calendar source and a
\* non-null external event id.
C16_OneRowPerRemoteEvent ==
  \A r, q \in external_events :
    /\ r.external_event_id # None
    /\ r.calendar_source_id = q.calendar_source_id
    /\ r.external_event_id = q.external_event_id
    => r = q

\* C17: every committed row that is not all-day ends after it starts; an
\* update_event given only a start or only an end either commits such rows
\* or fails and commits nothing.
C17_TimedRowsEndAfterStart ==
  /\ [](\A r \in external_events : r.all_day \/ r.end_at > r.start_at)
  /\ [][/\ req.op = "update_event" /\ req.pc = "call" /\ req'.pc = "done"
         /\ (req.args.start_at = Nil) # (req.args.end_at = Nil)
         /\ external_events' # external_events
         => /\ req'.result.status = "ok"
            /\ \E r \in external_events' :
                 /\ r.id = req.target
                 /\ req.args.start_at # Nil => r.start_at = req.args.start_at
                 /\ req.args.end_at # Nil => r.end_at = req.args.end_at
                 /\ r.all_day \/ r.end_at > r.start_at]_vars

\* an update that gave only a start, at or after the end of a timed row,
\* failed at the commit, after the provider call
C17_Witness ==
  /\ req.op = "update_event"
  /\ req.pc = "done"
  /\ req.result.error = "IntegrityError"
  /\ req.args.start_at # Nil
  /\ req.args.end_at = Nil
  /\ req.api_calls = 1
  /\ \E r \in external_events :
       r.id = req.target /\ ~r.all_day /\ req.args.start_at >= r.end_at

----------------------------------------------------------------------------
(* Concurrent refreshes *)

\* the operation whose refresh was committed last
LastWriter == CHOOSE p \in Procs : \A q \in Procs : req[q].order <= req[p].order

----------------------------------------------------------------------------
(* The commits of a sync *)

\* C21: a token refresh changes only the access token, refresh token and
\* expiry of the account being refreshed; it changes and persists no
\* calendar source and no cached event, also when the sync it happens in
\* has uncommitted changes pending.
C21_RefreshTouchesTokensOnly ==
  [][req.pc = "refresh" /\ req'.posts = req.posts + 1 =>
       /\ calendar_sources' = calendar_sources
       /\ external_events' = external_events
       /\ \A a \in DOMAIN oauth_accounts :
            /\ a # req.acct => oauth_accounts'[a] = oauth_accounts[a]
            /\ oauth_accounts'[a].id = oauth_accounts[a].id
            /\ oauth_accounts'[a].user_id = oauth_accounts[a].user_id
            /\ oauth_accounts'[a].provider = oauth_accounts[a].provider]_vars

\* C22: during the sync of one account the calendar sources and cached
\* events are committed once, by the commit that ends the account's unit of
\* work, and at no point before it.
C22_OneCommitPerAccount ==
  [][req.op = "sync_user"
       /\ (calendar_sources' # calendar_sources \/ external_events' # external_events)
     => req.pc = "commit"]_vars

----------------------------------------------------------------------------
(* Token refresh: the answers that are not a success, the absent expiry *)

\* C24: when the token endpoint answers a refresh request with a response
\* that is not a success, the validity check fails with TokenRefreshFailed,
\* the account keeps its access token, refresh token and expiry, and the
\* provider call that needed the refresh is not made.
C24_RejectedRefreshChangesNothing ==
  [][/\ req.pc = "refresh" /\ req'.posts = req.posts + 1
     /\ provider'.answered = provider.answered /\ FlushOK(session)
     => /\ oauth_accounts' = oauth_accounts
        /\ req'.pc # "call"
        /\ req'.api_calls = req.api_calls
        /\ req.op = "sync_calendar" =>
             /\ req'.pc = "done"
             /\ req'.result.status = "error"
             /\ req'.result.error = "TokenRefreshFailed"]_vars

\* the sync of one calendar failed with TokenRefreshFailed after one request
\* to the token endpoint and no provider call
C24_Witness ==
  /\ req.op = "sync_calendar"
  /\ req.pc = "done"
  /\ req.result.error = "TokenRefreshFailed"
  /\ req.posts = 1
  /\ req.api_calls = 0
  /\ Acct.access_token = "at0"

\* C28: for an account with no stored expiry the validity check attempts no
\* refresh and does not fail, at any time and with or without a refresh
\* token; the provider call carries the stored access token and the account
\* is left as it is.
C28_NoExpiryNoRefresh ==
  [][req.pc \in {"refresh", "call"} /\ req' # req /\ Acct.token_expires_at = Nil =>
       /\ oauth_accounts' = oauth_accounts
       /\ req'.posts = req.posts
       /\ req'.reauths = req.reauths
       /\ req.pc = "refresh" => req'.pc = "call" /\ req'.api_calls = req.api_calls
       /\ req.pc = "call" =>
            /\ req'.api_calls = req.api_calls + 1
            /\ req'.api_token = Acct.access_token]_vars

\* a provider call of an account with no expiry and no refresh token was
\* made late on the clock
C28_Witness ==
  /\ req.op = "sync_calendar"
  /\ req.pc = "done"
  /\ req.result.status = "ok"
  /\ Acct.token_expires_at = Nil
  /\ Acct.refresh_token = None
  /\ now = MaxTime
  /\ req.api_calls = 1
  /\ req.api_token = Acct.access_token
  /\ req.posts = 0
  /\ req.reauths = 0

----------------------------------------------------------------------------
(* Updates of single events and the failures of the writes *)

\* the row carries what the provider's event carries
Mirrors(r, ge) ==
  /\ r.title = ge.summary
  /\ r.description = ge.description
  /\ r.location = ge.location
  /\ r.start_at = start_at(ge)
  /\ r.end_at = end_at(ge)
  /\ r.all_day = all_day(ge)

\* C25: after a successful update_event the cached row has the title,
\* description, location, start, end and all-day flag that the provider's
\* event has after the update, whichever fields were given.
C25_UpdatedRowMirrorsProvider ==
  [][req.op = "update_event" /\ req.pc = "call"
       /\ req'.pc = "done" /\ req'.result.status = "ok"
     => \E r \in external_events' :
          /\ r.id = req.target
          /\ LET held == provider'.events[ExternalCalendarId(session, req.calendar_source)]
             IN \E i \in 1..Len(held) :
                  held[i].id = r.external_event_id /\ Mirrors(r, held[i])]_vars

\* the failures a caller has to tell apart
Typed == {"ReauthRequired", "TokenRefreshFailed", "ValidationError", "NotFound"}

\* C26: the failures of a write are told apart by the caller: a missing
\* refresh token, a rejected refresh, an invalid time range and an unknown id
\* are answered differently, and only an unknown id is answered as not found.
C26_FailuresToldApart ==
  req.op \in Writes /\ req.pc = "done" /\ req.result.error \in Typed =>
    /\ StatusCode(req.op, req.result) = 404 <=> req.result.error = "NotFound"
    /\ \A e \in Typed \ {req.result.error} :
         StatusCode(req.op, [req.result EXCEPT !.error = e])
           # StatusCode(req.op, req.result)

----------------------------------------------------------------------------
(* The origin tag *)

\* C30: no step changes the origin tag of a row that exists; a row that
\* create_event inserts is tagged generated and a row that a sync inserts is
\* tagged imported; no row is inserted for a calendar source and external
\* event id that a row already carries, so the row of a created event is
\* the one later syncs update.
C30_OriginTagKept ==
  [][\A q \in external_events' :
       IF \E r \in external_events : r.id = q.id
         THEN \A r \in external_events : r.id = q.id => q.source = r.source
         ELSE /\ q.source = IF req.op = "create_event" THEN "generated" ELSE "imported"
              /\ req.op \in {"create_event", "sync_calendar", "sync_user"}
              /\ \A r \in external_events :
                   ~(/\ r.calendar_source_id = q.calendar_source_id
                     /\ r.external_event_id = q.external_event_id)]_vars

\* a sync of the calendar went over a created event and an imported one:
\* the first is still tagged generated
C30_Witness ==
  /\ req.op = "sync_calendar"
  /\ req.pc = "done"
  /\ req.result.status = "ok"
  /\ req.total_events = 2
  /\ \E r, q \in external_events :
       /\ r.source = "generated"
       /\ r.external_event_id = "g1"
       /\ q.source = "imported"
       /\ q.external_event_id = "e1"
       /\ q.id > r.id

----------------------------------------------------------------------------
(* The OAuth callback *)

\* C29: an OAuth callback for a (user, provider, provider account id) that
\* has a row updates that row and adds none, and stores the refresh token
\* of the token answer, none if the answer has none; no other step turns a
\* stored refresh token into an empty one; with no refresh token stored the
\* next due refresh fails with ReauthRequired.
C29_CallbackReplacesRefreshToken ==
  /\ [][req'.op = "google_callback" /\ now' = now /\ req'.result.status = "ok" =>
          LET cb == req'.callback
              m == Connected(cb.user, cb.google_user_id)
          IN m # {} =>
               /\ DOMAIN oauth_accounts' = DOMAIN oauth_accounts
               /\ \A a \in DOMAIN oauth_accounts :
                    IF a \in m
                      THEN /\ oauth_accounts'[a].refresh_token = cb.tokens.refresh_token
                           /\ oauth_accounts'[a].access_token = cb.tokens.access_token
                           /\ oauth_accounts'[a].provider_account_id = cb.google_user_id
                      ELSE oauth_accounts'[a] = oauth_accounts[a]]_vars
  /\ [][\A a \in DOMAIN oauth_accounts \cap DOMAIN oauth_accounts' :
          /\ oauth_accounts[a].refresh_token \notin {None, ""}
          /\ oauth_accounts'[a].refresh_token \in {None, ""}
          => /\ req'.op = "google_callback"
             /\ req'.acct = a
             /\ req'.callback.tokens.refresh_token = None]_vars
  /\ [][/\ req.pc = "refresh" /\ req' # req
         /\ RefreshNeeded(Acct.token_expires_at, now)
         /\ Acct.refresh_token = None
         => /\ req'.reauths = req.reauths + 1
            /\ req'.posts = req.posts
            /\ req.op = "sync_calendar" =>
                 req'.pc = "done" /\ req'.result.error = "ReauthRequired"]_vars

\* a callback of the connected Google user whose answer had no refresh token
\* cleared the stored one, and the sync after it failed with ReauthRequired
C29_Witness ==
  /\ req.op = "sync_calendar"
  /\ req.pc = "done"
  /\ req.result.error = "ReauthRequired"
  /\ DOMAIN oauth_accounts = {"a1"}
  /\ oauth_accounts["a1"].access_token = "at2"
  /\ oauth_accounts["a1"].refresh_token = None
  /\ provider.granted["a1"] = None

----------------------------------------------------------------------------
(* Task lines *)

\* A trimmed line read from its end: the unit, the whitespace before it,
\* the number, the whitespace before the number, and the text before that.
Suffix(L) ==
  LET UnitLetters ==
        {"m", "i", "n", "s", "u", "t", "e", "h", "r", "o",
         "M", "I", "N", "S", "U", "T", "E", "H", "R", "O"}
      \* the integer a sequence of decimal digits writes
      RECURSIVE Written(_)
      Written(t) ==
        IF t = <<>> THEN 0
        ELSE 10 * Written(SubSeq(t, 1, Len(t) - 1)) + DigitValue(t[Len(t)])
      RECURSIVE TenTo(_)
      TenTo(k) == IF k = 0 THEN 1 ELSE 10 * TenTo(k - 1)
      a == Len(L) - RunBack(L, UnitLetters)
      b == a - RunBack(SubSeq(L, 1, a), Whitespace)
      c == b - RunBack(SubSeq(L, 1, b), DigitChars \cup {"."})
      d == c - RunBack(SubSeq(L, 1, c), Whitespace)
      word == SubSeq(L, a + 1, Len(L))
      number == SubSeq(L, c + 1, b)
      unit == [k \in 1..Len(word) |-> Lower(word[k])]
      digits == SelectSeq(number, LAMBDA ch : ch \in DigitChars)
      decimals == Len(number) - Run(number, 1, DigitChars) - 1
      scale == IF decimals > 0 THEN TenTo(decimals) ELSE 1
  IN [present |-> /\ unit \in MinuteUnits \cup HourUnits
                  /\ number # <<>>
                  /\ number[1] \in DigitChars
                  /\ Len(number) - Len(digits) <= 1
                  /\ c > d,
      title |-> SubSeq(L, 1, d),
      minutes |-> IF unit \in MinuteUnits THEN Written(digits) \div scale
                  ELSE (Written(digits) * 60) \div scale]

\* C23: parse_task_line gives, for a line that (trimmed) ends in a number
\* and a minute or hour unit separated from the title by whitespace, the
\* text before it as title, the duration converted to minutes, confidence
\* 1.0 and method regex_v1, and for any other non-empty line the whole
\* line as title, duration 60, confidence 0.5 and method default.
C23_TaskLineParsed ==
  (req.op = "parse_task_line" /\ req.pc = "done" /\ Strip(req.line) # <<>>) =>
    LET L == Strip(req.line)
        suffix == Suffix(L)
    IN IF suffix.present
         THEN req.result = <<suffix.title, suffix.minutes, "1.0", "regex_v1">>
         ELSE req.result = <<L, 60, "0.5", "default">>

----------------------------------------------------------------------------
(* create_event during a sync *)

\* C27: when create_event and a sync of the same calendar have both ended,
\* the table holds exactly one row of the calendar source with the id the
\* provider gave to the created event.
C27_OneRowForCreatedEvent ==
  (/\ DOMAIN req = Together
   /\ \A o \in Together : req[o].pc = "done" /\ req[o].outcome = "ok") =>
    Cardinality(Matching(external_events, 1, req["create_event"].gid)) = 1

====
